---- MODULE Spec2Model ----
(***************************************************************************)
(* Vsrdle round engines: the classic two-card engine (gameLogic.js), the   *)
(* odd-one-out engine (gameLogicOdd.js), the tier ladder (tierUtils.js),   *)
(* the settings store (settings.js) and the lifetime stats (stats.js).     *)
(*                                                                         *)
(* The repository holds two copies of each engine module: src/js/*.js and  *)
(* the copies under src/unnamed (part_004 for gameLogic.js, part_002 for   *)
(* gameLogicOdd.js).  The variable `revision` says which copy the page     *)
(* loaded; where the two copies agree a definition models both.            *)
(*                                                                         *)
(* JavaScript null is the string Null; a missing character is NullChar, a  *)
(* missing pair NullPair.  Math.random() is a nondeterministic choice.     *)
(***************************************************************************)
EXTENDS Integers, Sequences, FiniteSets, TLC

VARIABLES
  revision,      \* "js": src/js/gameLogic.js, src/js/gameLogicOdd.js; "alt": part_004, part_002
  characters,    \* dataLoader.js `characters`, the normalized pool (an array)
  settings,      \* settings.js `settings`
  gameState,     \* gameLogic.js `gameState`
  oddGameState,  \* gameLogicOdd.js `oddGameState`
  stats,         \* stats.js `stats`
  storage,       \* localStorage: the items vsrdle_settings and vsrdle_stats, and
                 \* whether setItem succeeds
  ret,           \* the last call and what it returned (`recorded`: the streak it handed to recordRound)
  hist           \* history of the runs, for stating the properties; hist.mode, where
                 \* a specification follows one section of the page, is main.js currentMode

vars == <<revision, characters, settings, gameState, oddGameState, stats, storage, ret, hist>>

----------------------------------------------------------------------------
(* Bounds                                                                  *)

\* the page is followed until this many rounds have been recorded
MaxRounds == 2

----------------------------------------------------------------------------
(* tierUtils.js                                                            *)

Null == "null"

TIER_ORDER ==
  << "Tier 0",
     "High 1-A", "1-A", "Low 1-A",
     "High 1-B", "1-B", "1-C", "Low 1-C",
     "2-A", "2-B", "2-C", "Low 2-C",
     "High 3-A", "3-A", "3-B", "3-C",
     "4-A", "4-B", "High 4-C", "4-C", "Low 4-C",
     "High 5-A", "5-A", "5-B", "Low 5-B", "5-C",
     "Tier 6", "High 6-A", "6-A", "High 6-B", "6-B", "Low 6-B", "High 6-C", "6-C",
     "High 7-A", "7-A", "7-B", "Low 7-B", "High 7-C", "7-C", "Low 7-C",
     "8-A", "8-B", "High 8-C", "8-C",
     "9-A", "9-B", "9-C",
     "10-A", "10-B", "10-C",
     "11-A", "11-B", "11-C" >>

\* Array.prototype.indexOf: the 0-based position of the first match, or -1
getTierIndex(tier) ==
  IF \E i \in 1..Len(TIER_ORDER) : TIER_ORDER[i] = tier
  THEN (CHOOSE i \in 1..Len(TIER_ORDER) :
          /\ TIER_ORDER[i] = tier
          /\ \A k \in 1..(i - 1) : TIER_ORDER[k] # tier) - 1
  ELSE -1

NullChar == [id |-> Null, name |-> Null, origin |-> Null, highestTier |-> Null]

\* getStrongerCharacter with the comparison turned around: the higher index wins
GetWeakerCharacter(a, b) ==
  LET idxA == getTierIndex(a.highestTier)
      idxB == getTierIndex(b.highestTier)
  IN  IF idxA < 0 \/ idxB < 0 THEN NullChar
      ELSE IF idxA > idxB THEN a ELSE b

getStrongerCharacter(a, b) ==
  LET idxA == getTierIndex(a.highestTier)
      idxB == getTierIndex(b.highestTier)
  IN  IF idxA < 0 \/ idxB < 0 THEN NullChar
      ELSE IF idxA < idxB THEN a ELSE b

Abs(n) == IF n < 0 THEN -n ELSE n

----------------------------------------------------------------------------
(* Sequence helpers (Array.prototype.filter, Set, spread)                  *)

Range(s) == { s[i] : i \in 1..Len(s) }

\* the elements of s in order, each value kept at its first occurrence:
\* the insertion order of the keys of a Map / Set filled from s
RECURSIVE FirstOccurrences(_)
FirstOccurrences(s) ==
  IF s = <<>> THEN <<>>
  ELSE LET front == FirstOccurrences(SubSeq(s, 1, Len(s) - 1))
           last  == s[Len(s)]
       IN  IF last \in Range(front) THEN front ELSE Append(front, last)

\* Array.prototype.splice(idx, 1) on a copy, idx 1-based here
RemoveAt(s, idx) == SubSeq(s, 1, idx - 1) \o SubSeq(s, idx + 1, Len(s))

----------------------------------------------------------------------------
(* Characters, as dataLoader.js normalizeCharacter produces them           *)

Char(id, name, origin, tier) ==
  [id |-> id, name |-> name, origin |-> origin, highestTier |-> tier]

getCharacterKey(c) == c.name \o "::" \o c.origin

----------------------------------------------------------------------------
(* Pools the data provider may hand over.  Ids are unique; two records may *)
(* carry the same name and origin (duplicate tier entries of a character). *)

\* classic: Tier 0 (index 0), High 1-A (1), High 1-B (4), 1-B (5); Ann is listed twice
PoolLadder ==
  << Char("t0",  "Zeno", "X", "Tier 0"),
     Char("a1",  "Ann",  "X", "High 1-A"),
     Char("a2",  "Abe",  "Y", "High 1-A"),
     Char("b1",  "Bea",  "X", "High 1-B"),
     Char("a1x", "Ann",  "X", "1-B"),
     Char("n1",  "Nil",  "Y", Null) >>

\* odd-one-out: three characters at 2-A, three at 2-B, two at 2-C: enough for two rounds
PoolTwoRounds ==
  << Char("p1", "P1", "X", "2-A"),
     Char("p2", "P2", "X", "2-A"),
     Char("q1", "Q1", "X", "2-B"),
     Char("p3", "P3", "X", "2-A"),
     Char("q2", "Q2", "X", "2-B"),
     Char("q3", "Q3", "X", "2-B"),
     Char("r1", "R1", "X", "2-C"),
     Char("r2", "R2", "X", "2-C") >>

\* odd-one-out: Dee is listed at 3-A and once more at 3-B
PoolDuplicates ==
  << Char("d1",  "Dee", "X", "3-A"),
     Char("e1",  "Eli", "X", "3-A"),
     Char("f1",  "Fay", "Y", "3-A"),
     Char("d1y", "Dee", "X", "3-B"),
     Char("g1",  "Gus", "X", "3-B") >>

\* both engines: three characters at 2-A and one at 2-B, one round for each engine
PoolSmall ==
  << Char("p1", "P1", "X", "2-A"),
     Char("p2", "P2", "X", "2-A"),
     Char("q1", "Q1", "Y", "2-B"),
     Char("p3", "P3", "Y", "2-A") >>

\* both engines: two characters at 2-A and two at 2-B, two classic rounds and no
\* odd-one-out round
PoolTwoPairs ==
  << Char("p1", "P1", "X", "2-A"),
     Char("q1", "Q1", "Y", "2-B"),
     Char("p2", "P2", "X", "2-A"),
     Char("q2", "Q2", "X", "2-B") >>

\* both engines under every setting: Tier 0 (index 0), High 1-A (1) and High 1-B (4),
\* the Tier 0 character of origin Y, and one character without a tier
PoolModes ==
  << Char("z0", "Zed", "Y", "Tier 0"),
     Char("m1", "M1",  "X", "High 1-A"),
     Char("m2", "M2",  "X", "High 1-A"),
     Char("k1", "K1",  "X", "High 1-B"),
     Char("m3", "M3",  "X", "High 1-A"),
     Char("n0", "Nul", "X", Null) >>

\* classic: the three top labels of the ladder, indices 0, 1 and 2
PoolTop ==
  << Char("c0", "C0", "Y", "Tier 0"),
     Char("c1", "C1", "X", "High 1-A"),
     Char("c2", "C2", "Y", "1-A") >>

\* classic: exactly 2 usable characters in 2 different tiers
PoolPair ==
  << Char("u1", "U1", "X", "2-A"),
     Char("u2", "U2", "X", "2-B") >>

\* classic: two tiers 4 ladder steps apart, High 1-A (index 1) and 1-B (index 5)
PoolFar ==
  << Char("f1", "F1", "X", "High 1-A"),
     Char("f2", "F2", "X", "1-B") >>

\* odd-one-out: Dee has two records at 3-A, Fay is of origin Y
PoolEcho ==
  << Char("d1", "Dee", "X", "3-A"),
     Char("e1", "Eli", "X", "3-A"),
     Char("d2", "Dee", "X", "3-A"),
     Char("f1", "Fay", "Y", "3-A"),
     Char("g1", "Gus", "X", "3-B") >>

\* odd-one-out in very-hard mode: three characters at High 1-A (index 1) and one
\* each at Tier 0 (0), 1-A (2), Low 1-A (3) and 1-B (5)
PoolHard ==
  << Char("h0", "H0", "X", "Tier 0"),
     Char("a1", "A1", "X", "High 1-A"),
     Char("a2", "A2", "X", "High 1-A"),
     Char("a3", "A3", "X", "High 1-A"),
     Char("b1", "B1", "X", "1-A"),
     Char("c1", "C1", "X", "Low 1-A"),
     Char("d1", "D1", "X", "1-B") >>

\* odd-one-out: three characters at 2-A and two at 2-B
PoolThreeTwo ==
  << Char("a1", "A1", "X", "2-A"),
     Char("b1", "B1", "X", "2-B"),
     Char("a2", "A2", "X", "2-A"),
     Char("a3", "A3", "Y", "2-A"),
     Char("b2", "B2", "Y", "2-B") >>

\* classic: the weaker tier listed first, so that its group comes first
PoolDescending ==
  << Char("w1", "W1", "X", "2-B"),
     Char("s1", "S1", "X", "2-A"),
     Char("w2", "W2", "X", "2-B") >>

PoolsVs   == { PoolLadder }
PoolsVsEdge == { PoolTop, PoolPair, PoolFar, PoolDescending }
PoolsOdd  == { PoolDuplicates }
PoolsBoth == { PoolSmall, PoolTwoPairs }

\* the page: one Tier 0 character of origin Y and three High 1-A ones of origin X
PoolPage ==
  << Char("z0", "Zed", "Y", "Tier 0"),
     Char("a1", "A1",  "X", "High 1-A"),
     Char("a2", "A2",  "X", "High 1-A"),
     Char("a3", "A3",  "X", "High 1-A") >>

Ids == { characters[i].id : i \in 1..Len(characters) } \cup { "nobody" }

----------------------------------------------------------------------------
(* settings.js                                                             *)

DefaultSettings ==
  [theme |-> "dark", veryHardMode |-> FALSE, customMode |-> FALSE, customSeries |-> <<>>,
   lightMode |-> FALSE]

\* values updateSetting is called with, per key
SettingValues ==
  [veryHardMode |-> BOOLEAN, customMode |-> BOOLEAN, customSeries |-> { <<>>, <<"X">> }]

getSettings == settings

\* a localStorage item: nothing stored under the key, or the JSON text of an object
AbsentItem == [kind |-> "absent"]

JsonItem(value) == [kind |-> "object", value |-> value]

\* the localStorage of a page whose settings and stats were saved before and whose
\* setItem works
StorageHolding(s, st) ==
  [settings |-> JsonItem(s), stats |-> JsonItem(st), writable |-> TRUE]

\* a localStorage whose getItem throws, and an item that is not JSON
UnreadableItem == [kind |-> "unreadable"]

GarbageItem == [kind |-> "garbage"]

\* { ...base, ...parsed }
Spread(base, parsed) ==
  [k \in DOMAIN base \cup DOMAIN parsed |->
     IF k \in DOMAIN parsed THEN parsed[k] ELSE base[k]]

\* loadSettings without its try/catch: a failing getItem or JSON.parse propagates
LoadSettingsUncaught(store, s) ==
  [settings |-> IF store.settings.kind = "object"
                THEN Spread(s, store.settings.value) ELSE s,
   threw |-> store.settings.kind \in { "unreadable", "garbage" }]

\* loadSettings(): the settings afterwards, and whether an exception left the function
LoadSettings(store, s) ==
  [settings |-> IF store.settings.kind = "object"
                THEN Spread(s, store.settings.value) ELSE s,
   threw |-> FALSE]

\* saveSettings(): the storage afterwards, and whether an exception left the function
saveSettings(store, s) ==
  [store |-> IF store.writable THEN [store EXCEPT !.settings = JsonItem(s)] ELSE store,
   threw |-> FALSE]

\* the exploration goes on while fewer than MaxRounds rounds are recorded
Playing == stats.totalRounds < MaxRounds

updateSetting(key, value) ==
  /\ Playing
  /\ settings' = [settings EXCEPT ![key] = value]
  /\ LET saved == saveSettings(storage, settings')
     IN  /\ storage' = saved.store
         /\ ret' = IF saved.threw
                   THEN [op |-> "updateSetting", threw |-> TRUE]
                   ELSE [op |-> "updateSetting"]
  /\ UNCHANGED <<revision, characters, gameState, oddGameState, stats, hist>>

----------------------------------------------------------------------------
(* stats.js                                                                *)

ZeroStats == [totalRounds |-> 0, totalCorrectRounds |-> 0, bestStreak |-> 0]

\* what loadStats may have merged over the zeroes at start-up
LoadedStats == { ZeroStats, [totalRounds |-> 1, totalCorrectRounds |-> 1, bestStreak |-> 1] }

\* recordRound counting every round as correct
RecordRoundAlwaysCorrect(st, correct, streakAfterRound) ==
  [st EXCEPT !.totalRounds = @ + 1,
             !.totalCorrectRounds = @ + 1,
             !.bestStreak = IF streakAfterRound > @ THEN streakAfterRound ELSE @]

\* recordRound with the comparison against bestStreak turned around
RecordRoundReversedBest(st, correct, streakAfterRound) ==
  LET counted == [st EXCEPT !.totalRounds = @ + 1]
  IN  IF correct
      THEN [counted EXCEPT
              !.totalCorrectRounds = @ + 1,
              !.bestStreak = IF streakAfterRound < @ THEN streakAfterRound ELSE @]
      ELSE counted

\* recordRound forgetting totalCorrectRounds++
RecordRoundForgettingCorrect(st, correct, streakAfterRound) ==
  LET counted == [st EXCEPT !.totalRounds = @ + 1]
  IN  IF correct
      THEN [counted EXCEPT
              !.bestStreak = IF streakAfterRound > @ THEN streakAfterRound ELSE @]
      ELSE counted

\* the stats after recordRound(correct, streakAfterRound)
recordRound(st, correct, streakAfterRound) ==
  LET counted == [st EXCEPT !.totalRounds = @ + 1]
  IN  IF correct
      THEN [counted EXCEPT
              !.totalCorrectRounds = @ + 1,
              !.bestStreak = IF streakAfterRound > @ THEN streakAfterRound ELSE @]
      ELSE counted

\* saveStats without its try/catch: a failing setItem propagates
SaveStatsUncaught(store, st) ==
  [store |-> IF store.writable THEN [store EXCEPT !.stats = JsonItem(st)] ELSE store,
   threw |-> ~store.writable]

\* saveStats(): the storage afterwards, and whether an exception left the function
saveStats(store, st) ==
  [store |-> IF store.writable THEN [store EXCEPT !.stats = JsonItem(st)] ELSE store,
   threw |-> FALSE]

\* history: the streakAfterRound values passed on correct rounds
NoteRecordRound(h, correct, streakAfterRound) ==
  IF correct /\ streakAfterRound > h.maxPassed
  THEN [h EXCEPT !.maxPassed = streakAfterRound]
  ELSE h

----------------------------------------------------------------------------
(* gameLogic.js : the classic two-card engine                              *)

NullPair == [left |-> NullChar, right |-> NullChar]

\* `!x` of a string-or-null value
Falsy(v) == v = Null \/ v = ""

\* the state gameLogic.js is loaded with
LoadingGameState ==
  [phase |-> "loading", currentPair |-> NullPair, correctId |-> Null,
   streak |-> 0, usedCharacterKeys |-> {}]

\* a reset that puts the phase back to loading
FreshGameStateLoading ==
  [phase |-> "loading", currentPair |-> NullPair, correctId |-> Null,
   streak |-> 0, usedCharacterKeys |-> {}]

\* the state initGameState() and restartGame() assign
FreshGameState ==
  [phase |-> "inRound", currentPair |-> NullPair, correctId |-> Null,
   streak |-> 0, usedCharacterKeys |-> {}]

\* the filters without the very-hard exclusion of Tier 0
ModeFilteredPoolKeepingTierZero ==
  LET allowed == Range(getSettings.customSeries)
  IN  IF getSettings.customMode /\ Len(getSettings.customSeries) > 0
      THEN SelectSeq(characters, LAMBDA c : c.origin \in allowed)
      ELSE characters

\* the filters without the custom-series filter
ModeFilteredPoolIgnoringSeries ==
  IF getSettings.veryHardMode
  THEN SelectSeq(characters, LAMBDA c : c.highestTier # "Tier 0")
  ELSE characters

\* the filters giving the series filter up when it leaves nobody
ModeFilteredPoolFallingBack ==
  LET pool1 == IF getSettings.veryHardMode
               THEN SelectSeq(characters, LAMBDA c : c.highestTier # "Tier 0")
               ELSE characters
      allowed == Range(getSettings.customSeries)
      pool2 == SelectSeq(pool1, LAMBDA c : c.origin \in allowed)
  IN  IF getSettings.customMode /\ Len(getSettings.customSeries) > 0 /\ Len(pool2) > 0
      THEN pool2
      ELSE pool1

\* the pool after the very-hard and the custom-series filter (both engines)
ModeFilteredPool ==
  LET pool1 == IF getSettings.veryHardMode
               THEN SelectSeq(characters, LAMBDA c : c.highestTier # "Tier 0")
               ELSE characters
      allowed == Range(getSettings.customSeries)
  IN  IF getSettings.customMode /\ Len(getSettings.customSeries) > 0
      THEN SelectSeq(pool1, LAMBDA c : c.origin \in allowed)
      ELSE pool1

\* the grouping without `if (!c.highestTier) continue`
GroupByTierKeepingUnranked(pool) ==
  LET keys == FirstOccurrences([i \in 1..Len(pool) |-> pool[i].highestTier])
  IN  [keys |-> keys,
       get  |-> [t \in Range(keys) |-> SelectSeq(pool, LAMBDA c : c.highestTier = t)]]

\* a Map tier -> array of characters, filled in the order of pool:
\* keys is Array.from(groups.keys()), get[t] is groups.get(t)
GroupByTier(pool) ==
  LET ranked == SelectSeq(pool, LAMBDA c : ~Falsy(c.highestTier))
      keys   == FirstOccurrences([i \in 1..Len(ranked) |-> ranked[i].highestTier])
  IN  [keys |-> keys,
       get  |-> [t \in Range(keys) |-> SelectSeq(ranked, LAMBDA c : c.highestTier = t)]]

buildFilteredGroups == GroupByTier(ModeFilteredPool)

\* pickCharacterFromGroup without the filter on the used keys
PickFromGroupIgnoringUsed(group, used) ==
  IF Len(group) = 0 THEN { NullChar } ELSE Range(group)

\* pickCharacterFromGroup falling back on the whole group when every member is used
PickFromGroupFallingBack(group, used) ==
  LET available == SelectSeq(group, LAMBDA c : getCharacterKey(c) \notin used)
  IN  IF Len(group) = 0 THEN { NullChar }
      ELSE IF Len(available) = 0 THEN Range(group)
      ELSE Range(available)

\* what pickCharacterFromGroup(group) can return while `used` is usedCharacterKeys
pickCharacterFromGroup(group, used) ==
  LET available == SelectSeq(group, LAMBDA c : getCharacterKey(c) \notin used)
  IN  IF Len(group) = 0 \/ Len(available) = 0 THEN { NullChar } ELSE Range(available)

\* does src/js/gameLogic.js push the pair of tiers at this distance?
PushesPairJs(veryHard, distance) ==
  IF veryHard THEN distance >= 3 ELSE TRUE

\* part_004 asking for more than one ladder step in normal difficulty
PushesPairAltSkippingNeighbours(veryHard, distance) ==
  IF veryHard THEN distance = 3 ELSE distance > 1

\* does the copy in part_004 push the pair of tiers at this distance?
PushesPairAlt(veryHard, distance) ==
  IF veryHard THEN distance = 3 ELSE distance > 0

\* candidatePairs, the pairs [tA, tB] the double loop over tiers pushes while
\* settings.veryHardMode has the given value
CandidatePairsWhen(veryHardMode, tiers) ==
  { <<tiers[i], tiers[j]>> : <<i, j>> \in
      { p \in (1..Len(tiers)) \X (1..Len(tiers)) :
          /\ p[1] < p[2]
          /\ LET distance == Abs(getTierIndex(tiers[p[1]]) - getTierIndex(tiers[p[2]]))
             IN  IF revision = "js"
                 THEN PushesPairJs(veryHardMode, distance)
                 ELSE PushesPairAlt(veryHardMode, distance) } }

\* candidatePairs under the settings in force
CandidatePairs(tiers) == CandidatePairsWhen(getSettings.veryHardMode, tiers)

MaxAttempts == 40

\* one pass of the sampling loop: the <<left, right>> it can draw
AttemptDraws(groups, candidatePairs, used) ==
  UNION { pickCharacterFromGroup(groups.get[p[1]], used)
          \X pickCharacterFromGroup(groups.get[p[2]], used) : p \in candidatePairs }

\* the test written `!left || right`: a pass retries when a right character
\* was drawn
AttemptFailsOnRight(draw) ==
  \/ draw[1] = NullChar
  \/ draw[2] # NullChar

\* a draw that ends in attempts++ ; continue
AttemptFails(draw) ==
  \/ draw[1] = NullChar
  \/ draw[2] = NullChar
  \/ getStrongerCharacter(draw[1], draw[2]) = NullChar

\* the outcomes of `while (attempts < 40)` entered with the given count, when
\* every pass draws from `draws` (nothing a pass reads changes between passes)
RECURSIVE SamplingLoop(_, _)
SamplingLoop(draws, attempts) ==
  IF attempts >= MaxAttempts
  THEN { [kind |-> "error", pair |-> NullPair] }
  ELSE { [kind |-> "commit", pair |-> [left |-> d[1], right |-> d[2]]] :
           d \in { d \in draws : ~AttemptFails(d) } }
       \cup
       (IF \E d \in draws : AttemptFails(d)
        THEN SamplingLoop(draws, attempts + 1)
        ELSE {})

\* the outcomes of startNewRound() called in state gs: the new gameState, or a
\* TypeError when candidatePairs is empty and its undefined element is destructured
\* (the body of startNewRound after buildFilteredGroups() returned `groups`,
\* while settings.veryHardMode has the given value)
RoundOutcomes(groups, veryHardMode, gs) ==
  LET tiers  == SelectSeq(groups.keys, LAMBDA key : Len(groups.get[key]) > 0)
      candidatePairs == CandidatePairsWhen(veryHardMode, tiers)
  IN  IF Len(tiers) < 2
      THEN { [threw |-> FALSE, state |-> [gs EXCEPT !.phase = "error"]] }
      ELSE IF veryHardMode /\ candidatePairs = {}
      THEN { [threw |-> FALSE, state |-> [gs EXCEPT !.phase = "error"]] }
      ELSE IF candidatePairs = {}
      THEN { [threw |-> TRUE, state |-> gs] }
      ELSE { [threw |-> FALSE,
              state |-> IF o.kind = "commit"
                        THEN [gs EXCEPT !.currentPair = o.pair,
                                        !.correctId =
                                           getStrongerCharacter(o.pair.left, o.pair.right).id,
                                        !.phase = "inRound"]
                        ELSE [gs EXCEPT !.phase = "error"]] :
             o \in SamplingLoop(AttemptDraws(groups, candidatePairs, gs.usedCharacterKeys), 0) }

StartNewRoundOutcomes(gs) ==
  RoundOutcomes(buildFilteredGroups, getSettings.veryHardMode, gs)

initGameState ==
  /\ Playing
  /\ gameState' = FreshGameState
  /\ hist' = [hist EXCEPT !.vsRounds = <<>>]
  /\ ret' = [op |-> "initGameState"]
  /\ UNCHANGED <<revision, characters, settings, oddGameState, stats, storage>>

startNewRound ==
  /\ Playing
  /\ \E o \in StartNewRoundOutcomes(gameState) :
       /\ gameState' = o.state
       /\ ret' = [op |-> "startNewRound", threw |-> o.threw]
  /\ UNCHANGED <<revision, characters, settings, oddGameState, stats, storage, hist>>

\* `selected` falling back to the right card instead of null
SelectedCardOrRight(pair, selectedId) ==
  IF pair.left.id = selectedId THEN pair.left ELSE pair.right

\* `selected`: the card of the pair that carries selectedId, or null
SelectedCard(pair, selectedId) ==
  IF pair.left.id = selectedId THEN pair.left
  ELSE IF pair.right.id = selectedId THEN pair.right
  ELSE NullChar

\* handleChoice forgetting `streak = 0` on a wrong answer
ResolveChoiceKeepingStreak(gs, correct) ==
  [gs EXCEPT !.usedCharacterKeys = @ \cup { getCharacterKey(gs.currentPair.left),
                                            getCharacterKey(gs.currentPair.right) },
             !.streak = IF correct THEN @ + 1 ELSE @,
             !.phase = IF correct THEN "afterCorrect" ELSE "afterWrong"]

\* handleChoice marking the two cards used only when the answer was correct
ResolveChoiceConsumingOnCorrect(gs, correct) ==
  [gs EXCEPT !.usedCharacterKeys =
                IF correct
                THEN @ \cup { getCharacterKey(gs.currentPair.left),
                              getCharacterKey(gs.currentPair.right) }
                ELSE @,
             !.streak = IF correct THEN @ + 1 ELSE 0,
             !.phase = IF correct THEN "afterCorrect" ELSE "afterWrong"]

\* gameState after handleChoice has marked both cards used and scored the answer
ResolveChoice(gs, correct) ==
  [gs EXCEPT !.usedCharacterKeys = @ \cup { getCharacterKey(gs.currentPair.left),
                                            getCharacterKey(gs.currentPair.right) },
             !.streak = IF correct THEN @ + 1 ELSE 0,
             !.phase = IF correct THEN "afterCorrect" ELSE "afterWrong"]

\* gameState where an exception out of recordRound would leave handleChoice: on
\* a correct answer after streak++ and the phase, on a wrong one before both
InterruptedChoice(gs, correct) ==
  [gs EXCEPT !.usedCharacterKeys = @ \cup { getCharacterKey(gs.currentPair.left),
                                            getCharacterKey(gs.currentPair.right) },
             !.streak = IF correct THEN @ + 1 ELSE @,
             !.phase = IF correct THEN "afterCorrect" ELSE @]

\* the streakAfterRound handleChoice hands to recordRound: after streak++ on a
\* correct answer, before streak = 0 on a wrong one
StreakPassed(gs, correct) == IF correct THEN gs.streak + 1 ELSE gs.streak

handleChoice(selectedId) ==
  /\ Playing
  /\ IF \/ gameState.phase # "inRound"
        \/ gameState.currentPair = NullPair
        \/ SelectedCard(gameState.currentPair, selectedId) = NullChar
     THEN /\ ret' = [op |-> "handleChoice", valid |-> FALSE]
          /\ UNCHANGED <<gameState, stats, storage, hist>>
     ELSE LET correct == SelectedCard(gameState.currentPair, selectedId).id
                           = gameState.correctId
              passed  == StreakPassed(gameState, correct)
              round   == { getCharacterKey(gameState.currentPair.left),
                           getCharacterKey(gameState.currentPair.right) }
              saved   == saveStats(storage, recordRound(stats, correct, passed))
          IN  /\ stats' = recordRound(stats, correct, passed)
              /\ storage' = saved.store
              /\ hist' = [NoteRecordRound(hist, correct, passed)
                            EXCEPT !.vsRounds = Append(@, round)]
              /\ IF saved.threw
                 THEN /\ gameState' = InterruptedChoice(gameState, correct)
                      /\ ret' = [op |-> "handleChoice", threw |-> TRUE]
                 ELSE /\ gameState' = ResolveChoice(gameState, correct)
                      /\ ret' = [op |-> "handleChoice", valid |-> TRUE,
                                 correct |-> correct, selectedId |-> selectedId,
                                 correctId |-> gameState.correctId,
                                 recorded |-> passed,
                                 streak |-> gameState'.streak,
                                 phase |-> gameState'.phase]
  /\ UNCHANGED <<revision, characters, settings, oddGameState>>

\* restartGame forgetting `usedCharacterKeys = new Set()`
RestartGameKeepingUsed ==
  /\ Playing
  /\ \E o \in StartNewRoundOutcomes([FreshGameState EXCEPT
                                        !.usedCharacterKeys = gameState.usedCharacterKeys]) :
       /\ gameState' = o.state
       /\ ret' = [op |-> "restartGame", threw |-> o.threw]
  /\ hist' = [hist EXCEPT !.vsRounds = <<>>]
  /\ UNCHANGED <<revision, characters, settings, oddGameState, stats, storage>>

restartGame ==
  /\ Playing
  /\ \E o \in StartNewRoundOutcomes(FreshGameState) :
       /\ gameState' = o.state
       /\ ret' = [op |-> "restartGame", threw |-> o.threw]
  /\ hist' = [hist EXCEPT !.vsRounds = <<>>]
  /\ UNCHANGED <<revision, characters, settings, oddGameState, stats, storage>>

----------------------------------------------------------------------------
(* gameLogicOdd.js : the odd-one-out engine                                *)

\* the state gameLogicOdd.js is loaded with
LoadingOddGameState ==
  [phase |-> "loading", options |-> <<>>, oddId |-> Null,
   streak |-> 0, usedCharacterKeys |-> {}]

\* the state initOddGameState() and restartOddGame() assign
FreshOddGameState ==
  [phase |-> "inRound", options |-> <<>>, oddId |-> Null,
   streak |-> 0, usedCharacterKeys |-> {}]

\* Array.from(dedupedByKey.values()): the first record of every identity key
RECURSIVE DedupByKey(_)
DedupByKey(pool) ==
  IF pool = <<>> THEN <<>>
  ELSE LET front == DedupByKey(SubSeq(pool, 1, Len(pool) - 1))
           last  == pool[Len(pool)]
       IN  IF getCharacterKey(last) \in { getCharacterKey(c) : c \in Range(front) }
           THEN front
           ELSE Append(front, last)

\* buildFilteredPoolForOdd() of src/js/gameLogicOdd.js
BuildFilteredPoolForOddJs(used) ==
  SelectSeq(ModeFilteredPool, LAMBDA c : getCharacterKey(c) \notin used)

\* buildFilteredPoolForOdd() of part_002, which also dedupes by identity key
BuildFilteredPoolForOddAlt(used) ==
  DedupByKey(SelectSeq(ModeFilteredPool, LAMBDA c : getCharacterKey(c) \notin used))

\* buildFilteredPoolForOdd without the filter on the used keys
BuildPoolIgnoringUsed(used) ==
  IF revision = "js" THEN ModeFilteredPool ELSE DedupByKey(ModeFilteredPool)

buildFilteredPoolForOdd(used) ==
  IF revision = "js" THEN BuildFilteredPoolForOddJs(used)
  ELSE BuildFilteredPoolForOddAlt(used)

\* the arrays pickRandomDistinct(arr, count) can return (never called with too few)
RECURSIVE pickRandomDistinct(_, _)
pickRandomDistinct(arr, count) ==
  IF count = 0 THEN { <<>> }
  ELSE UNION { { <<arr[idx]>> \o rest : rest \in pickRandomDistinct(RemoveAt(arr, idx), count - 1) } :
               idx \in 1..Len(arr) }

Swap(a, i, j) == [a EXCEPT ![i] = a[j], ![j] = a[i]]

\* the Fisher-Yates passes for positions i, i-1, .. 2 (1-based) of a
RECURSIVE ShuffleFrom(_, _)
ShuffleFrom(a, i) ==
  IF i <= 1 THEN { a }
  ELSE UNION { ShuffleFrom(Swap(a, i, j), i - 1) : j \in 1..i }

\* a shuffle that leaves the array as it is
ShuffleArrayKeepingOrder(arr) == { arr }

shuffleArray(arr) == ShuffleFrom(arr, Len(arr))

\* the final guard of part_002: the shuffled options without same-key repeats,
\* or <<>> when fewer than 4 are left and the round is abandoned
UniqueOptions(options) ==
  LET uniqueOptions == DedupByKey(options)
  IN  IF Len(uniqueOptions) < 4 THEN <<>> ELSE uniqueOptions

\* a commit that already counts the four options as used
CommitOddRoundMarkingUsed(gs, options, oddChar) ==
  [gs EXCEPT !.options = options, !.oddId = oddChar.id, !.phase = "inRound",
             !.usedCharacterKeys = @ \cup { getCharacterKey(c) : c \in Range(options) }]

\* the round startNewOddRound() commits, or the error state when the final guard
\* of part_002 abandons it (src/js/gameLogicOdd.js commits the shuffled array as it is)
CommitOddRound(gs, options, oddChar) ==
  IF revision = "js"
  THEN [gs EXCEPT !.options = options, !.oddId = oddChar.id, !.phase = "inRound"]
  ELSE IF UniqueOptions(options) = <<>>
  THEN [gs EXCEPT !.phase = "error"]
  ELSE [gs EXCEPT !.options = UniqueOptions(options), !.oddId = oddChar.id,
                  !.phase = "inRound"]

\* candidateMajorTiers: the tiers with 3 or more characters and another tier beside them
CandidateMajorTiers(groups) ==
  { tier \in Range(groups.keys) :
      /\ Len(groups.get[tier]) >= 3
      /\ \E otherTier \in Range(groups.keys) :
           otherTier # tier /\ Len(groups.get[otherTier]) >= 1 }

\* otherTiers keeping, in very-hard mode, only the tiers 3 or more ladder steps away
OtherTiersAtDistance(groups, majorityTier) ==
  { tier \in Range(groups.keys) :
      /\ tier # majorityTier /\ Len(groups.get[tier]) > 0
      /\ getSettings.veryHardMode
           => Abs(getTierIndex(tier) - getTierIndex(majorityTier)) >= 3 }

\* otherTiers: every tier but the majority tier that has a character
OtherTiers(groups, majorityTier) ==
  { tier \in Range(groups.keys) : tier # majorityTier /\ Len(groups.get[tier]) > 0 }

\* the states startNewOddRound() can leave when it runs on the state gs
OddRoundOutcomes(gs) ==
  LET pool     == buildFilteredPoolForOdd(gs.usedCharacterKeys)
      groups   == GroupByTier(pool)
      tierKeys == groups.keys
      candidateMajorTiers == CandidateMajorTiers(groups)
      failed   == [gs EXCEPT !.phase = "error"]
  IN  IF Len(pool) < 4 THEN { failed }
      ELSE IF Len(tierKeys) < 2 THEN { failed }
      ELSE IF candidateMajorTiers = {} THEN { failed }
      ELSE UNION { UNION { UNION {
             { CommitOddRound(gs, options, oddChar) :
                 options \in UNION { shuffleArray(Append(majorityChars, oddChar)) :
                                  majorityChars \in
                                    pickRandomDistinct(groups.get[majorityTier], 3) } } :
               oddChar \in Range(groups.get[oddTier]) } :
             oddTier \in OtherTiers(groups, majorityTier) } :
           majorityTier \in candidateMajorTiers }

\* the body of startNewOddRound() run on the state gs: it leaves oddGameState'
StartNewOddRoundFrom(gs) == oddGameState' \in OddRoundOutcomes(gs)

\* initOddGameState resetting the classic run as well
InitOddAndClassicGameState ==
  /\ Playing
  /\ oddGameState' = FreshOddGameState
  /\ gameState' = FreshGameState
  /\ hist' = [hist EXCEPT !.oddRounds = <<>>, !.vsRounds = <<>>]
  /\ ret' = [op |-> "initOddGameState"]
  /\ UNCHANGED <<revision, characters, settings, stats, storage>>

initOddGameState ==
  /\ Playing
  /\ oddGameState' = FreshOddGameState
  /\ hist' = [hist EXCEPT !.oddRounds = <<>>]
  /\ ret' = [op |-> "initOddGameState"]
  /\ UNCHANGED <<revision, characters, settings, gameState, stats, storage>>

startNewOddRound ==
  /\ Playing
  /\ StartNewOddRoundFrom(oddGameState)
  /\ ret' = [op |-> "startNewOddRound"]
  /\ UNCHANGED <<revision, characters, settings, gameState, stats, storage, hist>>

\* options.find falling back to the first option instead of null
FindOptionOrFirst(options, selectedId) ==
  IF \E i \in 1..Len(options) : options[i].id = selectedId
  THEN options[CHOOSE i \in 1..Len(options) : options[i].id = selectedId]
  ELSE options[1]

\* options.find(c => c.id === selectedId), or null
FindOption(options, selectedId) ==
  IF \E i \in 1..Len(options) : options[i].id = selectedId
  THEN options[CHOOSE i \in 1..Len(options) :
                 /\ options[i].id = selectedId
                 /\ \A k \in 1..(i - 1) : options[k].id # selectedId]
  ELSE NullChar

\* handleOddChoice forgetting to leave phase inRound
ResolveOddChoiceStayingInRound(gs, correct) ==
  [gs EXCEPT !.usedCharacterKeys = @ \cup { getCharacterKey(c) : c \in Range(gs.options) },
             !.streak = IF correct THEN @ + 1 ELSE 0]

\* oddGameState after handleOddChoice has marked the options used and scored the answer
ResolveOddChoice(gs, correct) ==
  [gs EXCEPT !.usedCharacterKeys = @ \cup { getCharacterKey(c) : c \in Range(gs.options) },
             !.streak = IF correct THEN @ + 1 ELSE 0,
             !.phase = IF correct THEN "afterCorrect" ELSE "afterWrong"]

\* oddGameState where an exception out of recordRound would leave handleOddChoice
InterruptedOddChoice(gs, correct) ==
  [gs EXCEPT !.usedCharacterKeys = @ \cup { getCharacterKey(c) : c \in Range(gs.options) },
             !.streak = IF correct THEN @ + 1 ELSE @,
             !.phase = IF correct THEN "afterCorrect" ELSE @]

\* the streakAfterRound handleOddChoice hands to recordRound
OddStreakPassed(gs, correct) == IF correct THEN gs.streak + 1 ELSE gs.streak

handleOddChoice(selectedId) ==
  /\ Playing
  /\ IF oddGameState.phase # "inRound" \/ Len(oddGameState.options) # 4
     THEN /\ ret' = [op |-> "handleOddChoice", valid |-> FALSE,
                     message |-> "Not ready for selection."]
          /\ UNCHANGED <<oddGameState, stats, storage, hist>>
     ELSE IF FindOption(oddGameState.options, selectedId) = NullChar
     THEN /\ ret' = [op |-> "handleOddChoice", valid |-> FALSE,
                     message |-> "Unknown character selected."]
          /\ UNCHANGED <<oddGameState, stats, storage, hist>>
     ELSE LET correct == selectedId = oddGameState.oddId
              passed  == OddStreakPassed(oddGameState, correct)
              round   == { getCharacterKey(c) : c \in Range(oddGameState.options) }
              saved   == saveStats(storage, recordRound(stats, correct, passed))
          IN  /\ stats' = recordRound(stats, correct, passed)
              /\ storage' = saved.store
              /\ hist' = [NoteRecordRound(hist, correct, passed)
                            EXCEPT !.oddRounds = Append(@, round)]
              /\ IF saved.threw
                 THEN /\ oddGameState' = InterruptedOddChoice(oddGameState, correct)
                      /\ ret' = [op |-> "handleOddChoice", threw |-> TRUE]
                 ELSE /\ oddGameState' = ResolveOddChoice(oddGameState, correct)
                      /\ ret' = [op |-> "handleOddChoice", valid |-> TRUE,
                                 correct |-> correct, selectedId |-> selectedId,
                                 oddId |-> oddGameState.oddId,
                                 recorded |-> passed,
                                 options |-> oddGameState.options,
                                 streak |-> oddGameState'.streak,
                                 phase |-> oddGameState'.phase]
  /\ UNCHANGED <<revision, characters, settings, gameState>>

restartOddGame ==
  /\ Playing
  /\ StartNewOddRoundFrom(FreshOddGameState)
  /\ hist' = [hist EXCEPT !.oddRounds = <<>>]
  /\ ret' = [op |-> "restartOddGame"]
  /\ UNCHANGED <<revision, characters, settings, gameState, stats, storage>>

----------------------------------------------------------------------------
(* Specifications                                                          *)

NoHistory == [vsRounds |-> <<>>, oddRounds |-> <<>>, maxPassed |-> 0, zeroStart |-> TRUE]

\* the page after loadSettings(), loadStats() and the data load, before a mode is shown
InitWith(pools, loaded) ==
  /\ revision \in { "js", "alt" }
  /\ characters \in pools
  /\ settings = DefaultSettings
  /\ gameState = LoadingGameState
  /\ oddGameState = LoadingOddGameState
  /\ stats \in loaded
  /\ storage = StorageHolding(settings, stats)
  /\ ret = [op |-> "load"]
  /\ hist = [NoHistory EXCEPT !.zeroStart = (stats = ZeroStats)]

ApplySetting ==
  \E key \in DOMAIN SettingValues : \E value \in SettingValues[key] :
    updateSetting(key, value)

ClassicChoice == \E selectedId \in Ids : handleChoice(selectedId)

OddChoice == \E selectedId \in Ids : handleOddChoice(selectedId)

\* both engines on one page, under the default settings
Init == InitWith(PoolsBoth, LoadedStats)

Next ==
  \/ initGameState
  \/ startNewRound
  \/ ClassicChoice
  \/ restartGame
  \/ initOddGameState
  \/ startNewOddRound
  \/ OddChoice
  \/ restartOddGame

Spec == Init /\ [][Next]_vars

\* the classic engine and the settings
InitVs == InitWith(PoolsVs, { ZeroStats })

NextVs ==
  \/ ApplySetting
  \/ initGameState
  \/ startNewRound
  \/ ClassicChoice
  \/ restartGame

SpecVs == InitVs /\ [][NextVs]_vars

\* the classic engine and the settings on pools at the edge of availability
InitVsEdge == InitWith(PoolsVsEdge, { ZeroStats })

SpecVsEdge == InitVsEdge /\ [][NextVs]_vars

\* the odd-one-out engine and the settings
InitOdd == InitWith(PoolsOdd, { ZeroStats })

NextOdd ==
  \/ ApplySetting
  \/ initOddGameState
  \/ startNewOddRound
  \/ OddChoice
  \/ restartOddGame

SpecOdd == InitOdd /\ [][NextOdd]_vars

\* the odd-one-out engine and the settings on a pool with a repeated record
InitOddEdge == InitWith({ PoolEcho }, { ZeroStats })

SpecOddEdge == InitOddEdge /\ [][NextOdd]_vars

\* the odd-one-out engine with veryHardMode loaded on or off
InitOddHard ==
  /\ revision \in { "js", "alt" }
  /\ characters = PoolHard
  /\ settings \in { DefaultSettings, [DefaultSettings EXCEPT !.veryHardMode = TRUE] }
  /\ gameState = LoadingGameState
  /\ oddGameState = LoadingOddGameState
  /\ stats = ZeroStats
  /\ storage = StorageHolding(settings, stats)
  /\ ret = [op |-> "load"]
  /\ hist = NoHistory

NextOddHard ==
  \/ initOddGameState
  \/ startNewOddRound
  \/ OddChoice
  \/ restartOddGame

SpecOddHard == InitOddHard /\ [][NextOddHard]_vars

\* the odd-one-out engine on the pool of three and two
InitOddThreeTwo == InitWith({ PoolThreeTwo }, { ZeroStats })

SpecOddThreeTwo == InitOddThreeTwo /\ [][NextOddHard]_vars

\* one run of the odd-one-out engine on a pool that lasts two rounds:
\* startNewOddRound and handleOddChoice in any order, no restart
InitOddRun == InitWith({ PoolTwoRounds }, { ZeroStats })

NextOddRun ==
  \/ startNewOddRound
  \/ OddChoice

SpecOddRun == InitOddRun /\ [][NextOddRun]_vars

\* what loadSettings() may have merged over the defaults at start-up
LoadedSettings ==
  { [DefaultSettings EXCEPT !.veryHardMode = v, !.customMode = c, !.customSeries = s] :
      v \in BOOLEAN, c \in BOOLEAN, s \in SettingValues.customSeries }

\* main.js currentMode: the section of the page on display, whose buttons and
\* cards are the only ones that can be clicked
Modes == { "vs", "odd" }

\* the page showing one mode, under the settings loaded at start-up and changed
\* from the menu: hist.mode is currentMode
InitModes ==
  /\ revision \in { "js", "alt" }
  /\ characters = PoolModes
  /\ settings \in LoadedSettings
  /\ gameState = LoadingGameState
  /\ oddGameState = LoadingOddGameState
  /\ stats = ZeroStats
  /\ storage = StorageHolding(settings, stats)
  /\ ret = [op |-> "load"]
  /\ \E mode \in Modes :
       hist = [vsRounds |-> <<>>, oddRounds |-> <<>>, maxPassed |-> 0,
               zeroStart |-> TRUE, mode |-> mode]

\* the classic section on display
VsModeStep ==
  /\ hist.mode = "vs"
  /\ \/ initGameState
     \/ startNewRound
     \/ ClassicChoice
     \/ restartGame

\* the odd-one-out section on display
OddModeStep ==
  /\ hist.mode = "odd"
  /\ \/ initOddGameState
     \/ startNewOddRound
     \/ OddChoice
     \/ restartOddGame

NextModes ==
  \/ ApplySetting
  \/ VsModeStep
  \/ OddModeStep

SpecModes == InitModes /\ [][NextModes]_vars

\* the page staying in the mode it shows, on a pool that lasts two rounds of
\* the engine on display
InitRuns ==
  /\ revision \in { "js", "alt" }
  /\ characters \in { PoolLadder, PoolTwoRounds }
  /\ settings = DefaultSettings
  /\ gameState = LoadingGameState
  /\ oddGameState = LoadingOddGameState
  /\ stats = ZeroStats
  /\ storage = StorageHolding(settings, stats)
  /\ ret = [op |-> "load"]
  /\ hist = [vsRounds |-> <<>>, oddRounds |-> <<>>, maxPassed |-> 0,
             zeroStart |-> TRUE,
             mode |-> IF characters = PoolLadder THEN "vs" ELSE "odd"]

NextRuns ==
  \/ VsModeStep
  \/ hist.mode = "odd" /\ NextOddRun

SpecRuns == InitRuns /\ [][NextRuns]_vars

\* the menu applying a custom series of origins that no character of the pool has
SeriesValues ==
  [customMode |-> BOOLEAN, customSeries |-> { <<>>, <<"Nowhere">> }]

ApplySeries ==
  \E key \in DOMAIN SeriesValues : \E value \in SeriesValues[key] :
    updateSetting(key, value)

\* the page showing one mode while the custom series is changed from the menu
InitSeries ==
  /\ revision \in { "js", "alt" }
  /\ characters = PoolSmall
  /\ settings = DefaultSettings
  /\ gameState = LoadingGameState
  /\ oddGameState = LoadingOddGameState
  /\ stats = ZeroStats
  /\ storage = StorageHolding(settings, stats)
  /\ ret = [op |-> "load"]
  /\ \E mode \in Modes :
       hist = [vsRounds |-> <<>>, oddRounds |-> <<>>, maxPassed |-> 0,
               zeroStart |-> TRUE, mode |-> mode]

NextSeries ==
  \/ ApplySeries
  \/ VsModeStep
  \/ OddModeStep

SpecSeries == InitSeries /\ [][NextSeries]_vars

\* the same page when localStorage may refuse every write (quota, private mode)
InitStorage ==
  /\ revision \in { "js", "alt" }
  /\ characters = PoolSmall
  /\ settings = DefaultSettings
  /\ gameState = LoadingGameState
  /\ oddGameState = LoadingOddGameState
  /\ stats = ZeroStats
  /\ \E writable \in BOOLEAN :
       storage = [StorageHolding(settings, stats) EXCEPT !.writable = writable]
  /\ ret = [op |-> "load"]
  /\ \E mode \in Modes :
       hist = [vsRounds |-> <<>>, oddRounds |-> <<>>, maxPassed |-> 0,
               zeroStart |-> TRUE, mode |-> mode]

SpecStorage == InitStorage /\ [][NextSeries]_vars

\* what the vsrdle_settings item can hold when the page loads: nothing, an
\* unreadable store, text that is not JSON, or an object saved earlier (by this
\* or an older build, so with some or all of the keys)
StoredSettings ==
  { AbsentItem, UnreadableItem, GarbageItem,
    JsonItem([veryHardMode |-> TRUE]),
    JsonItem([customMode |-> TRUE, customSeries |-> <<"X">>]),
    JsonItem([DefaultSettings EXCEPT !.lightMode = TRUE, !.theme = "light"]) }

\* the page at DOMContentLoaded, before loadSettings()
InitLoad ==
  /\ revision \in { "js", "alt" }
  /\ characters = PoolSmall
  /\ settings = DefaultSettings
  /\ gameState = LoadingGameState
  /\ oddGameState = LoadingOddGameState
  /\ stats = ZeroStats
  /\ \E item \in StoredSettings :
       storage = [settings |-> item, stats |-> JsonItem(ZeroStats), writable |-> TRUE]
  /\ ret = [op |-> "DOMContentLoaded"]
  /\ \E mode \in Modes :
       hist = [vsRounds |-> <<>>, oddRounds |-> <<>>, maxPassed |-> 0,
               zeroStart |-> TRUE, mode |-> mode]

loadSettings ==
  /\ ret.op = "DOMContentLoaded"
  /\ LET loaded == LoadSettings(storage, settings)
     IN  /\ settings' = loaded.settings
         /\ ret' = [op |-> "loadSettings", threw |-> loaded.threw]
  /\ UNCHANGED <<revision, characters, gameState, oddGameState, stats, storage, hist>>

\* the sections are shown once the load has run
LoadedStep ==
  /\ ret.op # "DOMContentLoaded"
  /\ \/ VsModeStep
     \/ OddModeStep

NextLoad ==
  \/ loadSettings
  \/ LoadedStep

SpecLoad == InitLoad /\ [][NextLoad]_vars

\* ui.js, uiOdd.js, main.js : the page's event handlers, one action per handler

\* main.js showVsMode(): initGameState(); startNewRound()
showVsMode ==
  /\ Playing
  /\ \E o \in StartNewRoundOutcomes(FreshGameState) :
       /\ gameState' = o.state
       /\ ret' = [op |-> "showVsMode", threw |-> o.threw]
  /\ hist' = [hist EXCEPT !.vsRounds = <<>>, !.mode = "vs"]
  /\ UNCHANGED <<revision, characters, settings, oddGameState, stats, storage>>

\* showOddMode also calling initGameState() on the section it hides
ShowOddModeResettingClassic ==
  /\ Playing
  /\ StartNewOddRoundFrom(FreshOddGameState)
  /\ gameState' = FreshGameState
  /\ hist' = [hist EXCEPT !.oddRounds = <<>>, !.vsRounds = <<>>, !.mode = "odd"]
  /\ ret' = [op |-> "showOddMode"]
  /\ UNCHANGED <<revision, characters, settings, stats, storage>>

\* main.js showOddMode(): initOddGameState(); startNewOddRound()
showOddMode ==
  /\ Playing
  /\ StartNewOddRoundFrom(FreshOddGameState)
  /\ hist' = [hist EXCEPT !.oddRounds = <<>>, !.mode = "odd"]
  /\ ret' = [op |-> "showOddMode"]
  /\ UNCHANGED <<revision, characters, settings, gameState, stats, storage>>

Sides == { "left", "right" }

\* ui.js onCardClick(side), on the classic section
onCardClick(side) ==
  /\ hist.mode = "vs"
  /\ gameState.currentPair # NullPair
  /\ handleChoice(IF side = "left" THEN gameState.currentPair.left.id
                                   ELSE gameState.currentPair.right.id)

\* ui.js restartAndRenderNewRound()
restartAndRenderNewRound == restartGame

\* the click listener of next-button, shown while the phase is afterCorrect
onNextClick ==
  /\ hist.mode = "vs"
  /\ gameState.phase = "afterCorrect"
  /\ restartAndRenderNewRound

\* the click listener of restart-button, shown while the phase is afterWrong
onRestartClick ==
  /\ hist.mode = "vs"
  /\ gameState.phase = "afterWrong"
  /\ restartAndRenderNewRound

\* uiOdd.js onOddCardClick(index), on the odd-one-out section
onOddCardClick(index) ==
  /\ hist.mode = "odd"
  /\ index \in 1..Len(oddGameState.options)
  /\ handleOddChoice(oddGameState.options[index].id)

\* the click listener of odd-next-button
onOddNextClick ==
  /\ hist.mode = "odd"
  /\ oddGameState.phase = "afterCorrect"
  /\ startNewOddRound

\* the click listener of odd-restart-button
onOddRestartClick ==
  /\ hist.mode = "odd"
  /\ oddGameState.phase = "afterWrong"
  /\ restartOddGame

\* what the settings menu can hold when Apply is pressed: the series list is
\* read only while the custom mode box is checked
SettingsForms ==
  { [veryHardMode |-> v, customMode |-> c,
     customSeries |-> IF c THEN <<"X">> ELSE <<>>, lightMode |-> FALSE] :
      v \in BOOLEAN, c \in BOOLEAN }

\* ui.js onApplySettings(): four updateSetting calls, then
\* restartAndRenderNewRound(), whichever section is on display
onApplySettings ==
  /\ Playing
  /\ \E form \in SettingsForms :
       LET s1 == [settings EXCEPT !.veryHardMode = form.veryHardMode]
           s2 == [s1 EXCEPT !.customMode = form.customMode]
           s3 == [s2 EXCEPT !.customSeries = form.customSeries]
           s4 == [s3 EXCEPT !.lightMode = form.lightMode]
           st1 == saveSettings(storage, s1).store
           st2 == saveSettings(st1, s2).store
           st3 == saveSettings(st2, s3).store
           st4 == saveSettings(st3, s4).store
       IN  /\ settings' = s4
           /\ storage' = st4
  /\ UNCHANGED <<revision, characters>>
  /\ \E pool \in { ModeFilteredPool' } : \E veryHardMode \in { settings'.veryHardMode } :
       \E o \in RoundOutcomes(GroupByTier(pool), veryHardMode, FreshGameState) :
           /\ gameState' = o.state
           /\ ret' = [op |-> "onApplySettings", threw |-> o.threw]
  /\ hist' = [hist EXCEPT !.vsRounds = <<>>]
  /\ UNCHANGED <<oddGameState, stats>>

\* the page when DOMContentLoaded has run: default settings, the classic section
\* shown by showVsMode()
InitUi ==
  /\ revision \in { "js", "alt" }
  /\ characters = PoolPage
  /\ settings = DefaultSettings
  /\ oddGameState = LoadingOddGameState
  /\ stats = ZeroStats
  /\ storage = StorageHolding(settings, stats)
  /\ \E o \in StartNewRoundOutcomes(FreshGameState) :
       /\ gameState = o.state
       /\ ret = [op |-> "showVsMode", threw |-> o.threw]
  /\ hist = [vsRounds |-> <<>>, oddRounds |-> <<>>, maxPassed |-> 0,
             zeroStart |-> TRUE, mode |-> "vs"]

NextUi ==
  \/ showVsMode
  \/ showOddMode
  \/ \E side \in Sides : onCardClick(side)
  \/ onNextClick
  \/ onRestartClick
  \/ \E index \in 1..4 : onOddCardClick(index)
  \/ onOddNextClick
  \/ onOddRestartClick
  \/ onApplySettings

SpecUi == InitUi /\ [][NextUi]_vars

\* startNewRound() pass by pass: ret holds the position in the call (pc), the
\* local `attempts`, and `draws`, the <<left, right>> a pass can draw from the
\* locals groups and candidatePairs (nothing a pass reads changes between passes)

\* the call is inside `while (attempts < 40)`
InLoop == "pc" \in DOMAIN ret /\ ret.pc = "loop"

\* a loop condition that lets a 41st pass run
LoopRunsOnceMore(attempts) == attempts <= MaxAttempts

\* the loop condition attempts < 40
LoopRuns(attempts) == attempts < MaxAttempts

\* startNewRound() up to `let attempts = 0`
callStartNewRound ==
  /\ Playing
  /\ ~InLoop
  /\ LET groups == buildFilteredGroups
         tiers  == SelectSeq(groups.keys, LAMBDA key : Len(groups.get[key]) > 0)
         candidatePairs == CandidatePairs(tiers)
     IN  IF Len(tiers) < 2 \/ (getSettings.veryHardMode /\ candidatePairs = {})
         THEN /\ gameState' = [gameState EXCEPT !.phase = "error"]
              /\ ret' = [op |-> "startNewRound", pc |-> "returned", attempts |-> 0,
                         passes |-> 0, draws |-> {}]
         ELSE IF candidatePairs = {}
         THEN /\ gameState' = gameState
              /\ ret' = [op |-> "startNewRound", pc |-> "threw", attempts |-> 0,
                         passes |-> 0, draws |-> {}]
         ELSE /\ gameState' = gameState
              /\ ret' = [op |-> "startNewRound", pc |-> "loop", attempts |-> 0,
                         passes |-> 0,
                         draws |-> AttemptDraws(groups, candidatePairs,
                                                gameState.usedCharacterKeys)]
  /\ UNCHANGED <<revision, characters, settings, oddGameState, stats, storage, hist>>

\* one pass of the loop body: a failed draw counts an attempt, a good one commits
loopPass ==
  /\ InLoop
  /\ LoopRuns(ret.attempts)
  /\ \E draw \in ret.draws :
       IF AttemptFails(draw)
       THEN /\ gameState' = gameState
            /\ ret' = [ret EXCEPT !.attempts = @ + 1, !.passes = @ + 1]
       ELSE /\ gameState' =
                 [gameState EXCEPT
                    !.currentPair = [left |-> draw[1], right |-> draw[2]],
                    !.correctId = getStrongerCharacter(draw[1], draw[2]).id,
                    !.phase = "inRound"]
            /\ ret' = [ret EXCEPT !.pc = "returned", !.passes = @ + 1]
  /\ UNCHANGED <<revision, characters, settings, oddGameState, stats, storage, hist>>

\* the loop condition fails: phase error
loopExit ==
  /\ InLoop
  /\ ~LoopRuns(ret.attempts)
  /\ gameState' = [gameState EXCEPT !.phase = "error"]
  /\ ret' = [ret EXCEPT !.pc = "returned"]
  /\ UNCHANGED <<revision, characters, settings, oddGameState, stats, storage, hist>>

\* a card is clicked between two calls
ChoiceBetweenCalls ==
  /\ ~InLoop
  /\ ClassicChoice

InitLoop == InitWith(PoolsVs \cup PoolsVsEdge, { ZeroStats })

NextLoop ==
  \/ callStartNewRound
  \/ loopPass
  \/ loopExit
  \/ ChoiceBetweenCalls

\* a call that was entered goes on running: the loop is synchronous code
SpecLoop == InitLoop /\ [][NextLoop]_vars /\ WF_vars(loopPass \/ loopExit)

\* the tier ladder alone: getStrongerCharacter applied to two characters
TierInputs ==
  { "Tier 0", "High 1-A", "1-A", "2-B", "11-C", "Tier 12", "", Null }

InitTier ==
  /\ revision = "js"
  /\ characters \in { << Char("a", "A", "X", tA), Char("b", "B", "X", tB) >> :
                        tA \in TierInputs, tB \in TierInputs }
  /\ settings = DefaultSettings
  /\ gameState = LoadingGameState
  /\ oddGameState = LoadingOddGameState
  /\ stats = ZeroStats
  /\ storage = StorageHolding(settings, stats)
  /\ ret = [op |-> "load"]
  /\ hist = NoHistory

CompareStrength ==
  /\ \E i \in 1..2 : \E j \in 1..2 :
       ret' = [op |-> "getStrongerCharacter", a |-> characters[i], b |-> characters[j],
               value |-> getStrongerCharacter(characters[i], characters[j])]
  /\ UNCHANGED <<revision, characters, settings, gameState, oddGameState, stats, storage, hist>>

NextTier == CompareStrength

SpecTier == InitTier /\ [][NextTier]_vars

----------------------------------------------------------------------------
(* Properties                                                              *)

OnLadder(tier) == \E i \in 1..Len(TIER_ORDER) : TIER_ORDER[i] = tier

\* the ladder distance of the two tiers of a pair
PairDistance(pair) ==
  Abs(getTierIndex(pair.left.highestTier) - getTierIndex(pair.right.highestTier))

\* a classic round is resolved by this step: handleChoice returned valid:true
ClassicResolved == ret'.op = "handleChoice" /\ ret'.valid

\* an odd-one-out round is resolved by this step: handleOddChoice returned valid:true
OddResolved == ret'.op = "handleOddChoice" /\ ret'.valid

\* C1: classic engine, within one run no identity key appears in the pairs of two
\* different resolved rounds.
C1_ClassicNoRepeat ==
  \A i \in 1..Len(hist.vsRounds) : \A j \in 1..Len(hist.vsRounds) :
    i # j => hist.vsRounds[i] \cap hist.vsRounds[j] = {}

\* two rounds were resolved in the current classic run
C1_Witness == Len(hist.vsRounds) >= 2

\* C3: every pair startNewRound (alone or through restartGame) commits while
\* veryHardMode is on has two tiers exactly 3 ladder steps apart.
C3_VeryHardExactDistance ==
  (/\ ret.op \in { "startNewRound", "restartGame" }
   /\ gameState.phase = "inRound"
   /\ getSettings.veryHardMode)
  => PairDistance(gameState.currentPair) = 3

\* the copy of gameLogic.js in part_004 keeps the very-hard pairs at distance 3
C3_AltExactDistance == revision = "alt" => C3_VeryHardExactDistance

\* every very-hard pair is at distance 3 or more
C3_AtLeastThree ==
  (/\ ret.op \in { "startNewRound", "restartGame" }
   /\ gameState.phase = "inRound"
   /\ getSettings.veryHardMode)
  => PairDistance(gameState.currentPair) >= 3

\* C9: classic handleChoice called while the phase is not inRound, or without a
\* current pair, or with an id that is neither side's, returns valid:false and
\* changes nothing of gameState and stats.
C9_ClassicNoOp ==
  [][\A selectedId \in Ids :
       (/\ handleChoice(selectedId)
        /\ \/ gameState.phase # "inRound"
           \/ gameState.currentPair = NullPair
           \/ /\ gameState.currentPair.left.id # selectedId
              /\ gameState.currentPair.right.id # selectedId)
       => (/\ ret' = [op |-> "handleChoice", valid |-> FALSE]
           /\ gameState' = gameState
           /\ stats' = stats)]_vars

\* handleChoice has just refused an id that is on neither card of the round on display
C9_Witness ==
  /\ ret = [op |-> "handleChoice", valid |-> FALSE]
  /\ gameState.phase = "inRound"
  /\ gameState.currentPair # NullPair


\* C2: odd-one-out engine, within one run no identity key appears in the options
\* of two different resolved rounds.
C2_OddNoRepeat ==
  \A i \in 1..Len(hist.oddRounds) : \A j \in 1..Len(hist.oddRounds) :
    i # j => hist.oddRounds[i] \cap hist.oddRounds[j] = {}

\* two rounds were resolved in the current odd-one-out run
C2_Witness == Len(hist.oddRounds) >= 2

\* the options whose highestTier is tier
OptionsAtTier(options, tier) ==
  { i \in 1..Len(options) : options[i].highestTier = tier }

\* C4: the options on display are 4 characters with 4 distinct identity keys, 3 of
\* one highestTier and 1 of another, and oddId is the id of that one.
C4_OddShape ==
  oddGameState.options # <<>> =>
    LET options == oddGameState.options
    IN  /\ Len(options) = 4
        /\ Cardinality({ getCharacterKey(c) : c \in Range(options) }) = 4
        /\ \E odd \in 1..4 :
             /\ Cardinality(OptionsAtTier(options, options[odd].highestTier)) = 1
             /\ \A i \in 1..4 : \A k \in 1..4 :
                  (i # odd /\ k # odd) => options[i].highestTier = options[k].highestTier
             /\ oddGameState.oddId = options[odd].id
             /\ \A i \in 1..4 : i # odd => options[i].id # oddGameState.oddId

\* the copy of gameLogicOdd.js in part_002, which dedupes the pool, keeps the shape
C4_AltOddShape == revision = "alt" => C4_OddShape

\* C10: handleOddChoice called while the phase is not inRound, or while options
\* has not exactly 4 entries, or with an id that no option carries, returns
\* valid:false and changes nothing of oddGameState and stats.
C10_OddNoOp ==
  [][\A selectedId \in Ids :
       (/\ handleOddChoice(selectedId)
        /\ \/ oddGameState.phase # "inRound"
           \/ Len(oddGameState.options) # 4
           \/ \A i \in 1..Len(oddGameState.options) :
                oddGameState.options[i].id # selectedId)
       => (/\ ret'.op = "handleOddChoice"
           /\ ret'.valid = FALSE
           /\ oddGameState' = oddGameState
           /\ stats' = stats)]_vars

\* handleOddChoice has just refused a choice made before any round was built
C10_Witness ==
  /\ ret.op = "handleOddChoice"
  /\ ret.valid = FALSE
  /\ oddGameState.phase = "inRound"
  /\ oddGameState.options = <<>>

\* C5: a valid choice with the correct id leaves the streak one above its prior
\* value and the phase afterCorrect, a valid choice with a wrong id leaves the
\* streak 0 and the phase afterWrong, in both engines; no streak is negative.
C5_StreakUpdate ==
  /\ [][/\ ClassicResolved =>
             IF ret'.selectedId = gameState.correctId
             THEN /\ gameState'.streak = gameState.streak + 1
                  /\ gameState'.phase = "afterCorrect"
             ELSE /\ gameState'.streak = 0
                  /\ gameState'.phase = "afterWrong"
        /\ OddResolved =>
             IF ret'.selectedId = oddGameState.oddId
             THEN /\ oddGameState'.streak = oddGameState.streak + 1
                  /\ oddGameState'.phase = "afterCorrect"
             ELSE /\ oddGameState'.streak = 0
                  /\ oddGameState'.phase = "afterWrong"]_vars
  /\ [](gameState.streak >= 0 /\ oddGameState.streak >= 0)

\* a wrong classic answer has just reset a streak of 1 to 0
C5_Witness ==
  /\ ret.op = "handleChoice" /\ ret.valid /\ ~ret.correct
  /\ gameState.streak = 0
  /\ Len(hist.vsRounds) = 2
  /\ hist.maxPassed = 1

\* C6: a resolved round of either engine adds exactly 1 to totalRounds, and exactly
\* 1 to totalCorrectRounds when the answer was correct, nothing when it was wrong;
\* no other step changes either counter.
C6_RoundCounters ==
  [][IF ClassicResolved \/ OddResolved
     THEN /\ stats'.totalRounds = stats.totalRounds + 1
          /\ stats'.totalCorrectRounds =
               stats.totalCorrectRounds + (IF ret'.correct THEN 1 ELSE 0)
     ELSE /\ stats'.totalRounds = stats.totalRounds
          /\ stats'.totalCorrectRounds = stats.totalCorrectRounds]_vars

\* a wrong odd-one-out round was counted after a correct classic round
C6_Witness ==
  /\ ret.op = "handleOddChoice" /\ ret.valid /\ ~ret.correct
  /\ stats.totalRounds = 2
  /\ stats.totalCorrectRounds = 1
  /\ gameState.phase = "afterCorrect"

\* C7: bestStreak never decreases, a wrong round leaves it as it is, and when the
\* stats started from zero it equals the largest streakAfterRound passed to
\* recordRound on a correct round so far.
C7_BestStreak ==
  /\ [][/\ stats'.bestStreak >= stats.bestStreak
        /\ ((ClassicResolved \/ OddResolved) /\ ~ret'.correct)
             => stats'.bestStreak = stats.bestStreak]_vars
  /\ [](hist.zeroStart => stats.bestStreak = hist.maxPassed)

\* from zeroed stats, two correct rounds in a row have raised bestStreak to 2
C7_Witness ==
  /\ hist.zeroStart
  /\ stats.bestStreak = 2
  /\ hist.maxPassed = 2

\* C8: getStrongerCharacter(a, b) is null exactly when one of the two tiers is off
\* the ladder; otherwise it is a or b and no tier of the two has a lower ladder
\* index than its tier; for two different ranked tiers the argument order does
\* not matter.
C8_StrongerCharacter ==
  ret.op = "getStrongerCharacter" =>
    LET ranked == OnLadder(ret.a.highestTier) /\ OnLadder(ret.b.highestTier)
    IN  /\ (ret.value = NullChar) <=> ~ranked
        /\ ranked =>
             /\ ret.value \in { ret.a, ret.b }
             /\ getTierIndex(ret.value.highestTier) <= getTierIndex(ret.a.highestTier)
             /\ getTierIndex(ret.value.highestTier) <= getTierIndex(ret.b.highestTier)
        /\ (ranked /\ ret.a.highestTier # ret.b.highestTier)
             => ret.value = getStrongerCharacter(ret.b, ret.a)

\* the second argument, of the stronger tier, was returned
C8_Witness ==
  /\ ret.op = "getStrongerCharacter"
  /\ ret.a.highestTier = "1-A"
  /\ ret.b.highestTier = "Tier 0"
  /\ ret.value = ret.b

\* a classic round can be built from the whole pool under the settings: two ranked
\* characters the filters keep, of different tiers, 3 ladder steps apart in very-hard
ClassicRoundExists ==
  \E c \in Range(ModeFilteredPool) : \E d \in Range(ModeFilteredPool) :
    /\ ~Falsy(c.highestTier) /\ ~Falsy(d.highestTier)
    /\ c.highestTier # d.highestTier
    /\ getSettings.veryHardMode =>
         Abs(getTierIndex(c.highestTier) - getTierIndex(d.highestTier)) = 3

\* an odd-one-out round can be built from the whole pool under the settings: three
\* characters of one tier, with different identity keys, and one of another tier
OddRoundExists ==
  \E c \in Range(ModeFilteredPool) : \E d \in Range(ModeFilteredPool) :
    /\ ~Falsy(c.highestTier) /\ ~Falsy(d.highestTier)
    /\ c.highestTier # d.highestTier
    /\ Cardinality({ getCharacterKey(m) :
                       m \in { m \in Range(ModeFilteredPool) :
                                 m.highestTier = c.highestTier } }) >= 3

\* C11: when restartGame or restartOddGame returns, that engine's usedCharacterKeys
\* holds no key from before the restart, its streak is 0, and its phase is inRound
\* with a freshly committed round, or error only when no round can be built; the
\* lifetime stats are unchanged by the restart.
C11_RestartSemantics ==
  [][/\ (ret'.op = "restartGame" /\ ~ret'.threw) =>
          /\ gameState'.usedCharacterKeys \cap gameState.usedCharacterKeys = {}
          /\ gameState'.streak = 0
          /\ gameState'.phase \in { "inRound", "error" }
          /\ gameState'.phase = "inRound" =>
               /\ gameState'.currentPair.left \in Range(characters)
               /\ gameState'.currentPair.right \in Range(characters)
               /\ gameState'.correctId \in { gameState'.currentPair.left.id,
                                             gameState'.currentPair.right.id }
          /\ gameState'.phase = "error" =>
               /\ gameState'.currentPair = NullPair
               /\ ~ClassicRoundExists
          /\ stats' = stats
     /\ ret'.op = "restartOddGame" =>
          /\ oddGameState'.usedCharacterKeys \cap oddGameState.usedCharacterKeys = {}
          /\ oddGameState'.streak = 0
          /\ oddGameState'.phase \in { "inRound", "error" }
          /\ oddGameState'.phase = "inRound" =>
               /\ Len(oddGameState'.options) = 4
               /\ Range(oddGameState'.options) \subseteq Range(characters)
               /\ \E i \in 1..4 : oddGameState'.options[i].id = oddGameState'.oddId
          /\ oddGameState'.phase = "error" =>
               /\ oddGameState'.options = <<>>
               /\ ~OddRoundExists
          /\ stats' = stats]_vars

\* restartGame has just committed a pair after a round of the page was resolved
C11_Witness ==
  /\ ret.op = "restartGame"
  /\ gameState.phase = "inRound"
  /\ gameState.currentPair # NullPair
  /\ gameState.usedCharacterKeys = {}
  /\ stats.totalRounds >= 1

\* C12: a valid handleChoice adds the identity keys of both characters of the pair
\* to usedCharacterKeys and a valid handleOddChoice the keys of all 4 options,
\* whether the answer was correct or wrong; between the starts of two runs
\* (restart or init) usedCharacterKeys only grows.
C12_Consumption ==
  [][/\ ClassicResolved =>
          gameState'.usedCharacterKeys =
            gameState.usedCharacterKeys
              \cup { getCharacterKey(gameState.currentPair.left),
                     getCharacterKey(gameState.currentPair.right) }
     /\ OddResolved =>
          oddGameState'.usedCharacterKeys =
            oddGameState.usedCharacterKeys
              \cup { getCharacterKey(oddGameState.options[i]) : i \in 1..4 }
     /\ ret'.op \notin { "restartGame", "initGameState" } =>
          gameState.usedCharacterKeys \subseteq gameState'.usedCharacterKeys
     /\ ret'.op \notin { "restartOddGame", "initOddGameState" } =>
          oddGameState.usedCharacterKeys \subseteq oddGameState'.usedCharacterKeys]_vars

\* a wrong classic answer has just consumed the two cards of the second round of a run
C12_Witness ==
  /\ ret.op = "handleChoice" /\ ret.valid /\ ~ret.correct
  /\ Cardinality(gameState.usedCharacterKeys) = 4
  /\ { getCharacterKey(gameState.currentPair.left),
       getCharacterKey(gameState.currentPair.right) } \subseteq gameState.usedCharacterKeys

\* the characters of the round on display, of either engine
CommittedCharacters ==
  (IF gameState.currentPair = NullPair THEN {}
   ELSE { gameState.currentPair.left, gameState.currentPair.right })
  \cup Range(oddGameState.options)

\* C13: a character whose highestTier is null is never part of a committed classic
\* pair nor of committed odd-one-out options, whatever the settings and the history.
C13_UnrankedNeverCommitted ==
  \A c \in CommittedCharacters : ~Falsy(c.highestTier)

\* an odd-one-out round was built while a character without a tier passed the
\* custom-series filter
C13_Witness ==
  /\ ret.op = "startNewOddRound"
  /\ oddGameState.phase = "inRound"
  /\ Len(oddGameState.options) = 4
  /\ getSettings.customMode /\ getSettings.customSeries = <<"X">>
  /\ \E c \in Range(ModeFilteredPool) : c.highestTier = Null

\* the last call built a classic round
ClassicRoundBuilt ==
  /\ ret.op \in { "startNewRound", "restartGame" }
  /\ gameState.phase = "inRound"
  /\ gameState.currentPair # NullPair

\* the last call built an odd-one-out round
OddRoundBuilt ==
  /\ ret.op \in { "startNewOddRound", "restartOddGame" }
  /\ oddGameState.phase = "inRound"
  /\ oddGameState.options # <<>>

\* the characters of the round the last call built
BuiltCharacters ==
  IF ClassicRoundBuilt
  THEN { gameState.currentPair.left, gameState.currentPair.right }
  ELSE IF OddRoundBuilt THEN Range(oddGameState.options)
  ELSE {}

\* C14: a round committed by either engine's round construction while veryHardMode
\* is on contains no character whose highestTier is 'Tier 0', the top of the ladder.
C14_TierZeroExcluded ==
  getSettings.veryHardMode =>
    \A c \in BuiltCharacters : c.highestTier # TIER_ORDER[1]

\* an odd-one-out round was built in very-hard mode while the Tier 0 character of
\* the pool passed the custom-series filter
C14_Witness ==
  /\ OddRoundBuilt
  /\ getSettings.veryHardMode
  /\ ~getSettings.customMode
  /\ \E c \in Range(characters) : c.highestTier = "Tier 0"

\* the custom-series filter is in force
SeriesFilterOn == getSettings.customMode /\ Len(getSettings.customSeries) > 0

\* C15: a round committed while customMode is on and customSeries is non-empty
\* contains only characters whose origin is in customSeries; while customMode is
\* off or customSeries is empty the filtered pool keeps the characters of every
\* origin (all but the Tier 0 ones in very-hard mode).
C15_SeriesFilter ==
  /\ SeriesFilterOn =>
       \A c \in BuiltCharacters : c.origin \in Range(getSettings.customSeries)
  /\ ~SeriesFilterOn =>
       \A c \in Range(characters) :
         (getSettings.veryHardMode => c.highestTier # "Tier 0")
           => c \in Range(ModeFilteredPool)

\* with customMode on and an empty customSeries, a classic round shows the
\* character of origin Y
C15_EmptySeriesWitness ==
  /\ ClassicRoundBuilt
  /\ getSettings.customMode
  /\ getSettings.customSeries = <<>>
  /\ gameState.currentPair.left.origin = "Y"

\* with the series filter on X, an odd-one-out round of X characters was built
C15_Witness ==
  /\ OddRoundBuilt
  /\ SeriesFilterOn
  /\ \E c \in Range(characters) : ~Falsy(c.highestTier) /\ c.origin = "Y"

ClassicOps == { "initGameState", "startNewRound", "handleChoice", "restartGame" }

OddOps == { "initOddGameState", "startNewOddRound", "handleOddChoice", "restartOddGame" }

\* C16: every operation of the classic engine leaves the odd-one-out engine's
\* phase, options, oddId, streak and usedCharacterKeys unchanged, and every
\* operation of the odd-one-out engine leaves the classic engine's run and round
\* state unchanged; of the state the engines write, only the stats are shared.
C16_EngineIndependence ==
  [][/\ ret'.op \in ClassicOps =>
          /\ oddGameState' = oddGameState
          /\ settings' = settings /\ characters' = characters
     /\ ret'.op \in OddOps =>
          /\ gameState' = gameState
          /\ settings' = settings /\ characters' = characters]_vars

\* an odd-one-out round was answered while the classic run stood at a wrong
\* answer, and both rounds are in the stats
C16_Witness ==
  /\ ret.op = "handleOddChoice" /\ ret.valid
  /\ gameState.phase = "afterWrong"
  /\ Cardinality(gameState.usedCharacterKeys) = 2
  /\ Cardinality(oddGameState.usedCharacterKeys) = 4
  /\ stats.totalRounds >= 2

\* `tiers` of startNewRound: the populated tier labels of the filtered groups
PopulatedTiers ==
  SelectSeq(buildFilteredGroups.keys, LAMBDA key : Len(buildFilteredGroups.get[key]) > 0)

\* C17: classic startNewRound (alone or through restartGame) never throws, and it
\* leaves phase error whenever the enumeration over the populated tiers yields no
\* candidate tier pair, in normal difficulty as well as in very-hard.
C17_NoCandidatePairIsError ==
  ret.op \in { "startNewRound", "restartGame" } =>
    /\ ~ret.threw
    /\ CandidatePairs(PopulatedTiers) = {} => gameState.phase = "error"

\* in normal difficulty the filters left one populated tier, nothing was
\* enumerated and startNewRound ended in error before any round was played
C17_Witness ==
  /\ ret = [op |-> "startNewRound", threw |-> FALSE]
  /\ ~getSettings.veryHardMode
  /\ Len(PopulatedTiers) = 1
  /\ gameState.phase = "error"
  /\ gameState.usedCharacterKeys = {}

\* no two populated tier groups of the filtered pool are 3 ladder steps apart
NoTiersAtDistanceThree ==
  \A i \in 1..Len(PopulatedTiers) : \A j \in 1..Len(PopulatedTiers) :
    Abs(getTierIndex(PopulatedTiers[i]) - getTierIndex(PopulatedTiers[j])) # 3

\* a very-hard round construction without two tiers at distance 3 ends in error
\* and commits no pair
VeryHardUnavailableStep ==
  (/\ ret'.op \in { "startNewRound", "restartGame" }
   /\ getSettings.veryHardMode
   /\ NoTiersAtDistanceThree)
  => /\ gameState'.phase = "error"
     /\ gameState'.currentPair =
          (IF ret'.op = "restartGame" THEN NullPair ELSE gameState.currentPair)

\* C18: with veryHardMode on, if no two populated tier groups of the filtered pool
\* are exactly 3 ladder steps apart, classic startNewRound (alone or through
\* restartGame) sets phase error and commits no new pair.
C18_VeryHardUnavailable == [][VeryHardUnavailableStep]_vars

\* the copy of gameLogic.js in part_004 reports the very-hard unavailability
C18_AltVeryHardUnavailable == [][revision = "alt" => VeryHardUnavailableStep]_vars

\* very-hard on the tiers at indices 1 and 2: two populated tiers, no pair, error
C18_Witness ==
  /\ ret = [op |-> "startNewRound", threw |-> FALSE]
  /\ getSettings.veryHardMode
  /\ Len(PopulatedTiers) = 2
  /\ NoTiersAtDistanceThree
  /\ gameState.phase = "error"

\* the populated tiers whose group still holds a character with an unused key
TiersWithUnused ==
  { t \in Range(PopulatedTiers) :
      \E c \in Range(buildFilteredGroups.get[t]) :
        getCharacterKey(c) \notin gameState.usedCharacterKeys }

\* C19: in the classic engine, once the no-repeat filter leaves fewer than two tier
\* groups holding an unused character, a startNewRound call (without restart) ends
\* with phase error.
C19_PoolExhaustion ==
  (ret.op = "startNewRound" /\ Cardinality(TiersWithUnused) < 2)
    => (~ret.threw /\ gameState.phase = "error")

\* a pool of 2 characters in 2 tiers: after one round, answered wrongly, the next
\* startNewRound ended in error
C19_Witness ==
  /\ ret = [op |-> "startNewRound", threw |-> FALSE]
  /\ Len(characters) = 2
  /\ Len(PopulatedTiers) = 2
  /\ TiersWithUnused = {}
  /\ stats.totalRounds = 1 /\ stats.totalCorrectRounds = 0
  /\ gameState.phase = "error"

\* the filtered pool of unused characters of the odd-one-out engine, one record
\* (the first of the pool) for every identity key
UnusedCharacters ==
  { ModeFilteredPool[i] : i \in
      { i \in 1..Len(ModeFilteredPool) :
          /\ getCharacterKey(ModeFilteredPool[i]) \notin oddGameState.usedCharacterKeys
          /\ \A k \in 1..(i - 1) :
               getCharacterKey(ModeFilteredPool[k]) # getCharacterKey(ModeFilteredPool[i]) } }

\* a tier with at least 3 of these characters and another tier with at least 1
OddConstructible ==
  \E c \in UnusedCharacters : \E d \in UnusedCharacters :
    /\ ~Falsy(c.highestTier) /\ ~Falsy(d.highestTier)
    /\ c.highestTier # d.highestTier
    /\ Cardinality({ m \in UnusedCharacters : m.highestTier = c.highestTier }) >= 3

\* the outcome of a round construction of the odd-one-out engine matches the pool
OddOutcomeMatchesPool ==
  ret.op \in { "startNewOddRound", "restartOddGame" } =>
    /\ oddGameState.phase \in { "inRound", "error" }
    /\ oddGameState.phase = "inRound" <=> OddConstructible

\* C20: startNewOddRound (alone or through restartOddGame) commits a round, phase
\* inRound, exactly when the filtered pool of unused characters contains a tier
\* with at least 3 characters and another tier with at least 1 character; in
\* every other case it ends with phase error.
C20_OddConstructibility == OddOutcomeMatchesPool

\* the copy of gameLogicOdd.js in part_002, which dedupes the pool by identity key
C20_AltOddConstructibility == revision = "alt" => OddOutcomeMatchesPool

\* the series filter left Dee (twice), Eli and Gus: no tier with 3 characters,
\* and the round construction ended in error
C20_ErrorReached ==
  /\ ret.op = "startNewOddRound"
  /\ SeriesFilterOn
  /\ ~OddConstructible
  /\ oddGameState.phase = "error"

\* the series filter is in force and no character of the pool has a listed origin
UnknownOriginsOnly ==
  /\ SeriesFilterOn
  /\ \A c \in Range(characters) : c.origin \notin Range(getSettings.customSeries)

\* C21: with customMode on and a non-empty customSeries holding only origins that
\* no character has, round construction in either engine ends with phase error
\* without throwing; startNewRound and startNewOddRound leave the streak,
\* usedCharacterKeys and the lifetime stats unchanged.
C21_UnknownOrigins ==
  [][UnknownOriginsOnly =>
       /\ ret'.op \in { "startNewRound", "restartGame" } =>
            /\ ~ret'.threw
            /\ gameState'.phase = "error"
            /\ stats' = stats
       /\ ret'.op = "startNewRound" =>
            /\ gameState'.streak = gameState.streak
            /\ gameState'.usedCharacterKeys = gameState.usedCharacterKeys
       /\ ret'.op \in { "startNewOddRound", "restartOddGame" } =>
            /\ oddGameState'.phase = "error"
            /\ stats' = stats
       /\ ret'.op = "startNewOddRound" =>
            /\ oddGameState'.streak = oddGameState.streak
            /\ oddGameState'.usedCharacterKeys = oddGameState.usedCharacterKeys]_vars

\* after a correct classic round the series was set to unknown origins, and the
\* next round construction ended in error with the streak and the used keys kept
C21_Witness ==
  /\ ret = [op |-> "startNewRound", threw |-> FALSE]
  /\ UnknownOriginsOnly
  /\ gameState.phase = "error"
  /\ gameState.streak = 1
  /\ Cardinality(gameState.usedCharacterKeys) = 2
  /\ stats.totalRounds = 1

(***************************************************************************)
(* C22: persistence failures                                               *)
(***************************************************************************)

\* a step of the named operation that got past its validity checks
VsAnswered == ret'.op = "handleChoice" /\ hist'.vsRounds # hist.vsRounds

OddAnswered == ret'.op = "handleOddChoice" /\ hist'.oddRounds # hist.oddRounds

\* C22: while localStorage refuses writes, no exception leaves updateSetting,
\* handleChoice or handleOddChoice; updateSetting still changes the in-memory
\* setting; a valid choice still counts the round in the in-memory stats,
\* advances the phase, updates the streak and returns its valid outcome.
C22_PersistenceFailures ==
  [][ ~storage.writable =>
        /\ ret'.op \in { "updateSetting", "handleChoice", "handleOddChoice" }
             => "threw" \notin DOMAIN ret'
        /\ ret'.op = "updateSetting"
             => /\ storage' = storage
                /\ \E key \in DOMAIN SeriesValues : \E value \in SeriesValues[key] :
                     settings' = [settings EXCEPT ![key] = value]
        /\ VsAnswered
             => /\ "valid" \in DOMAIN ret' /\ ret'.valid
                /\ stats' = recordRound(stats, ret'.correct, gameState.streak + 1)
                /\ gameState'.phase
                     = IF ret'.correct THEN "afterCorrect" ELSE "afterWrong"
                /\ gameState'.streak = IF ret'.correct THEN gameState.streak + 1 ELSE 0
                /\ ret'.streak = gameState'.streak
                /\ ret'.phase = gameState'.phase
                /\ storage' = storage
        /\ OddAnswered
             => /\ "valid" \in DOMAIN ret' /\ ret'.valid
                /\ stats' = recordRound(stats, ret'.correct, oddGameState.streak + 1)
                /\ oddGameState'.phase
                     = IF ret'.correct THEN "afterCorrect" ELSE "afterWrong"
                /\ oddGameState'.streak
                     = IF ret'.correct THEN oddGameState.streak + 1 ELSE 0
                /\ ret'.streak = oddGameState'.streak
                /\ ret'.phase = oddGameState'.phase
                /\ storage' = storage ]_vars

\* C22 witness: a wrong answer was resolved while the write of the stats failed
C22_Witness ==
  /\ ~storage.writable
  /\ ret.op \in { "handleChoice", "handleOddChoice" }
  /\ "valid" \in DOMAIN ret /\ ret.valid /\ ~ret.correct
  /\ ret.phase = "afterWrong"
  /\ stats.totalRounds > 0
  /\ storage.stats = JsonItem(ZeroStats)

\* C22 witness: a setting was changed while the write of the settings failed
C22_SettingWitness ==
  /\ ~storage.writable
  /\ ret.op = "updateSetting"
  /\ settings # DefaultSettings
  /\ storage.settings = JsonItem(DefaultSettings)

(***************************************************************************)
(* C23: loadSettings                                                       *)
(***************************************************************************)

\* C23: once loadSettings has run, no exception has left it, and the settings
\* are the documented defaults when the stored item is absent, unreadable or
\* not JSON, and otherwise hold, key by key, the stored value where the stored
\* object has the key and the default where it has not.
C23_LoadSettings ==
  ret.op # "DOMContentLoaded" =>
    /\ ret.op = "loadSettings" => ~ret.threw
    /\ IF storage.settings.kind = "object"
       THEN /\ DOMAIN settings
                 = DOMAIN DefaultSettings \cup DOMAIN storage.settings.value
            /\ \A k \in DOMAIN settings :
                 settings[k] = IF k \in DOMAIN storage.settings.value
                               THEN storage.settings.value[k]
                               ELSE DefaultSettings[k]
       ELSE /\ settings.veryHardMode = FALSE
            /\ settings.customMode = FALSE
            /\ settings.customSeries = <<>>
            /\ settings.lightMode = FALSE

\* C23 witness: the load ran over an item that is not JSON and left the defaults
C23_Witness ==
  /\ ret.op = "loadSettings"
  /\ storage.settings = GarbageItem
  /\ settings = DefaultSettings

\* C23 witness: the load merged a stored object that has only some of the keys
C23_MergeWitness ==
  /\ ret.op = "loadSettings"
  /\ storage.settings = JsonItem([veryHardMode |-> TRUE])
  /\ settings = [DefaultSettings EXCEPT !.veryHardMode = TRUE]

(***************************************************************************)
(* C24: the phase state machine                                            *)
(***************************************************************************)

\* one engine's phase step: prev and next phase, the operation that ran, and
\* the operations of that engine that construct a round or reset the run
\* (initGameState / initOddGameState is the reset half of a restart)
PhaseStepAllowed(prev, next, choiceOp, constructOps) ==
  /\ next = "loading" => prev = "loading"
  /\ (next \in { "afterCorrect", "afterWrong" } /\ next # prev)
       => /\ prev = "inRound"
          /\ ret'.op = choiceOp
          /\ "valid" \in DOMAIN ret' /\ ret'.valid
  /\ (prev \in { "afterCorrect", "afterWrong", "error" } /\ next # prev)
       => /\ ret'.op \in constructOps
          /\ next \in { "inRound", "error" }

\* C24: in both engines the phase never returns to loading; afterCorrect and
\* afterWrong are entered only by a valid choice made in inRound; and from
\* afterCorrect, afterWrong or error the phase changes only by round
\* construction or a restart, and only to inRound or error.
C24_PhaseMachine ==
  [][ /\ PhaseStepAllowed(gameState.phase, gameState'.phase, "handleChoice",
                          { "startNewRound", "restartGame", "initGameState" })
      /\ PhaseStepAllowed(oddGameState.phase, oddGameState'.phase, "handleOddChoice",
                          { "startNewOddRound", "restartOddGame",
                            "initOddGameState" }) ]_vars

\* C24 witness: after answered rounds of the run, round construction ended in error
C24_Witness ==
  /\ ret.op = "startNewRound"
  /\ gameState.phase = "error"
  /\ gameState.usedCharacterKeys # {}
  /\ Len(hist.vsRounds) > 0

\* C24 witness: the same in the odd-one-out engine
C24_OddWitness ==
  /\ ret.op = "startNewOddRound"
  /\ oddGameState.phase = "error"
  /\ oddGameState.usedCharacterKeys # {}
  /\ Len(hist.oddRounds) > 0

(***************************************************************************)
(* C25: the streak handed to recordRound                                   *)
(***************************************************************************)

C25_CorrectAnswers ==
  (/\ ret.op \in { "handleChoice", "handleOddChoice" }
   /\ "valid" \in DOMAIN ret /\ ret.valid /\ ret.correct)
    => ret.recorded = ret.streak /\ ret.streak > 0

\* a wrong answer ending a run with a streak: recordRound received that streak,
\* the outcome reports 0
C25_WrongAfterStreak ==
  /\ ret.op \in { "handleChoice", "handleOddChoice" }
  /\ "valid" \in DOMAIN ret /\ ret.valid /\ ~ret.correct
  /\ ret.recorded > 0
  /\ ret.streak = 0

(***************************************************************************)
(* C26: the classic Next button                                            *)
(***************************************************************************)

\* a click on next-button: the classic section, phase afterCorrect, the listener ran
NextClicked ==
  /\ hist.mode = "vs"
  /\ gameState.phase = "afterCorrect"
  /\ ret'.op = "restartGame"

\* C26: the classic Next action after a correct answer starts a new round of
\* the same run: the streak keeps its value and no used key is dropped.
C26_NextKeepsRun ==
  [][ NextClicked =>
        /\ gameState'.streak = gameState.streak
        /\ gameState.usedCharacterKeys \subseteq gameState'.usedCharacterKeys ]_vars

\* what the page does instead: Next begins a new run, like Restart
C26_NextRestarts ==
  [][ NextClicked =>
        /\ gameState'.streak = 0
        /\ gameState'.usedCharacterKeys = {} ]_vars

\* so on the page the classic streak never grows beyond 1
C26_StreakAtMostOne == gameState.streak <= 1

\* a Next click was made and a correct answer followed it
C26_NextClickedWitness ==
  /\ hist.mode = "vs"
  /\ ret.op = "handleChoice" /\ "valid" \in DOMAIN ret /\ ret.valid /\ ret.correct
  /\ stats.totalCorrectRounds = 2
  /\ gameState.streak = 1

(***************************************************************************)
(* C27: round construction leaves the run state alone                      *)
(***************************************************************************)

\* C27: startNewRound and startNewOddRound, whether they commit a round or end
\* in error, leave their engine's streak and usedCharacterKeys unchanged and do
\* not modify the lifetime stats.
C27_ConstructionFrame ==
  [][ /\ ret'.op = "startNewRound" =>
           /\ gameState'.streak = gameState.streak
           /\ gameState'.usedCharacterKeys = gameState.usedCharacterKeys
           /\ stats' = stats
      /\ ret'.op = "startNewOddRound" =>
           /\ oddGameState'.streak = oddGameState.streak
           /\ oddGameState'.usedCharacterKeys = oddGameState.usedCharacterKeys
           /\ stats' = stats ]_vars

\* C27 witness: startNewOddRound ended in error in a run that has a streak and used keys
C27_Witness ==
  /\ ret.op = "startNewOddRound"
  /\ oddGameState.phase = "error"
  /\ oddGameState.streak > 0
  /\ oddGameState.usedCharacterKeys # {}
  /\ stats.totalRounds > 0

\* C27 witness: startNewRound committed a pair in a run that has a streak and used keys
C27_ClassicWitness ==
  /\ ret.op = "startNewRound"
  /\ gameState.phase = "inRound"
  /\ gameState.streak > 0
  /\ gameState.usedCharacterKeys # {}
  /\ stats.totalRounds > 0

(***************************************************************************)
(* C28: the committed pair and its correct answer                          *)
(***************************************************************************)

\* C28: the pair startNewRound committed (alone or through restartGame) has two
\* characters with different highestTier labels, both on the ladder, and
\* correctId is the id of the one whose tier has the strictly lower ladder
\* index, which the other one does not share.
C28_CorrectIsStronger ==
  ClassicRoundBuilt =>
    LET left  == gameState.currentPair.left
        right == gameState.currentPair.right
        li    == getTierIndex(left.highestTier)
        ri    == getTierIndex(right.highestTier)
    IN  /\ left.highestTier # right.highestTier
        /\ OnLadder(left.highestTier) /\ OnLadder(right.highestTier)
        /\ li # ri
        /\ gameState.correctId = IF li < ri THEN left.id ELSE right.id
        /\ left.id # right.id

\* C28 witness: a pair was committed whose right card is the stronger one
C28_Witness ==
  /\ ClassicRoundBuilt
  /\ gameState.correctId = gameState.currentPair.right.id
  /\ getTierIndex(gameState.currentPair.right.highestTier)
       < getTierIndex(gameState.currentPair.left.highestTier)

\* C28 witness: a pair was committed whose left card is the stronger one
C28_LeftWitness ==
  /\ ClassicRoundBuilt
  /\ gameState.correctId = gameState.currentPair.left.id
  /\ getTierIndex(gameState.currentPair.left.highestTier)
       < getTierIndex(gameState.currentPair.right.highestTier)

(***************************************************************************)
(* C29: the bounded retry of startNewRound                                 *)
(***************************************************************************)

\* startNewRound has returned
Returned == "pc" \in DOMAIN ret /\ ret.pc = "returned"

\* C29: the sampling loop of startNewRound never runs more than 40 passes, the
\* call returns with phase inRound and a committed pair or with phase error,
\* error out of the loop only after 40 failed attempts, and every call that
\* entered the loop returns.
C29_BoundedRetry ==
  /\ []("pc" \in DOMAIN ret => ret.attempts <= MaxAttempts /\ ret.passes <= MaxAttempts)
  /\ [](Returned =>
          \/ gameState.phase = "inRound" /\ gameState.currentPair # NullPair
          \/ gameState.phase = "error" /\ ret.passes \in { 0, MaxAttempts })
  /\ (InLoop ~> Returned)

\* C29 witness: the call returned with phase error after its 40 passes all failed
C29_Witness ==
  /\ Returned
  /\ gameState.phase = "error"
  /\ ret.attempts = MaxAttempts
  /\ ret.passes = MaxAttempts

\* C29 witness: the call committed a pair on its 40th pass
C29_LastPassWitness ==
  /\ Returned
  /\ gameState.phase = "inRound"
  /\ ret.attempts = MaxAttempts - 1
  /\ ret.passes = MaxAttempts

\* the call seen pass by pass returns what StartNewRoundOutcomes gives for it
C29_LoopAgrees ==
  [][ Returned' /\ ~Returned =>
        gameState' \in { o.state : o \in StartNewRoundOutcomes(gameState) } ]_vars

(***************************************************************************)
(* C30: applying the settings                                              *)
(***************************************************************************)

\* the characters on display in the section that is shown
Displayed ==
  IF hist.mode = "vs"
  THEN IF gameState.currentPair = NullPair THEN {}
       ELSE { gameState.currentPair.left, gameState.currentPair.right }
  ELSE Range(oddGameState.options)

\* the displayed round obeys the settings in force
DisplayObeysSettings ==
  \A c \in Displayed :
    /\ getSettings.veryHardMode => c.highestTier # "Tier 0"
    /\ SeriesFilterOn => c.origin \in Range(getSettings.customSeries)

\* C30: when Apply has run, the settings hold the chosen values (and are the
\* ones stored), the streak of the mode on display is 0 and its
\* usedCharacterKeys is empty, and the round on display was built under the new
\* settings, whichever mode is on display.
C30_ApplyRestartsActiveMode ==
  ret.op = "onApplySettings" =>
    /\ storage.settings = JsonItem(settings)
    /\ \E form \in SettingsForms :
         \A key \in DOMAIN form : settings[key] = form[key]
    /\ IF hist.mode = "vs"
       THEN gameState.streak = 0 /\ gameState.usedCharacterKeys = {}
       ELSE oddGameState.streak = 0 /\ oddGameState.usedCharacterKeys = {}
    /\ DisplayObeysSettings

\* what holds of the page: Apply restarts the classic run, whatever is on display
C30_ApplyRestartsClassic ==
  ret.op = "onApplySettings" =>
    /\ storage.settings = JsonItem(settings)
    /\ \E form \in SettingsForms :
         \A key \in DOMAIN form : settings[key] = form[key]
    /\ gameState.streak = 0 /\ gameState.usedCharacterKeys = {}
    /\ hist.mode = "vs" => DisplayObeysSettings

\* Apply switched veryHardMode on while the odd-one-out section showed a round
\* with the Tier 0 character, in a run with a streak
C30_OddModeWitness ==
  /\ ret.op = "onApplySettings"
  /\ hist.mode = "odd"
  /\ getSettings.veryHardMode
  /\ oddGameState.streak > 0
  /\ \E c \in Range(oddGameState.options) : c.highestTier = "Tier 0"

\* Apply switched veryHardMode on in the classic section
C30_ClassicWitness ==
  /\ ret.op = "onApplySettings"
  /\ hist.mode = "vs"
  /\ getSettings.veryHardMode
  /\ stats.totalRounds > 0

(***************************************************************************)
(* C31: no tier distance in the odd-one-out engine                         *)
(***************************************************************************)

\* the tier of the odd option on display, and the tier of the other three
OddTierOnDisplay ==
  (CHOOSE c \in Range(oddGameState.options) : c.id = oddGameState.oddId).highestTier

MajorityTierOnDisplay ==
  (CHOOSE c \in Range(oddGameState.options) : c.id # oddGameState.oddId).highestTier

\* the ladder distance between the odd tier and the majority tier on display
OddDistance == Abs(getTierIndex(OddTierOnDisplay) - getTierIndex(MajorityTierOnDisplay))

\* the tier labels of the pool
PoolTiers == { c.highestTier : c \in Range(characters) }

\* the unused characters of the pool at a tier, Tier 0 left out
UnusedHardAt(tier) ==
  { c \in Range(characters) :
      /\ c.highestTier = tier /\ tier # "Tier 0"
      /\ getCharacterKey(c) \notin oddGameState.usedCharacterKeys }

\* the round a state of the odd-one-out engine shows: its majority and odd tiers
RoundTiers(gs) ==
  [major |-> (CHOOSE c \in Range(gs.options) : c.id # gs.oddId).highestTier,
   odd   |-> (CHOOSE c \in Range(gs.options) : c.id = gs.oddId).highestTier]

\* C31: while veryHardMode is on, startNewOddRound can commit a round for every
\* majority tier with 3 unused characters and every other tier with an unused
\* character, whatever the ladder distance between the two (1 and 2 included);
\* only Tier 0 is kept out of the round.
C31_NoDistanceConstraint ==
  getSettings.veryHardMode =>
    /\ \A major \in PoolTiers : \A other \in PoolTiers :
         (/\ major # other
          /\ Cardinality(UnusedHardAt(major)) >= 3
          /\ UnusedHardAt(other) # {})
           => \E o \in OddRoundOutcomes(oddGameState) :
                /\ o.phase = "inRound"
                /\ RoundTiers(o) = [major |-> major, odd |-> other]
    /\ OddRoundBuilt => \A c \in Range(oddGameState.options) : c.highestTier # "Tier 0"

\* C31 witness: a very-hard round whose odd tier is one ladder step from the majority
C31_Witness ==
  /\ OddRoundBuilt
  /\ getSettings.veryHardMode
  /\ OddDistance = 1

\* C31 witness: a very-hard round whose odd tier is two ladder steps away
C31_DistanceTwoWitness ==
  /\ OddRoundBuilt
  /\ getSettings.veryHardMode
  /\ OddDistance = 2

(***************************************************************************)
(* C32: three characters at one tier, two at another                       *)
(***************************************************************************)

\* the position of the odd option on display
OddPosition ==
  CHOOSE i \in 1..Len(oddGameState.options) :
    oddGameState.options[i].id = oddGameState.oddId

\* C32: with 3 characters at 2-A and 2 at 2-B, every committed round shows the
\* three 2-A characters and one 2-B character, which is the odd one; and while
\* no character is used, round construction can make each of the two 2-B
\* characters the odd one at each of the 4 positions.
C32_ThreeAndTwo ==
  /\ (oddGameState.phase = "inRound" /\ oddGameState.options # <<>>) =>
       /\ Len(oddGameState.options) = 4
       /\ Cardinality(OptionsAtTier(oddGameState.options, "2-A")) = 3
       /\ Cardinality(OptionsAtTier(oddGameState.options, "2-B")) = 1
       /\ OddTierOnDisplay = "2-B"
  /\ oddGameState.usedCharacterKeys = {} =>
       \A odd \in { c \in Range(characters) : c.highestTier = "2-B" } :
         \A position \in 1..4 :
           \E o \in OddRoundOutcomes(oddGameState) :
             /\ o.phase = "inRound"
             /\ o.oddId = odd.id
             /\ o.options[position] = odd

\* C32 witness: a round with the second 2-B character as the odd one, shuffled to
\* the first position
C32_Witness ==
  /\ OddRoundBuilt
  /\ oddGameState.oddId = "b2"
  /\ OddPosition = 1

\* C32 witness: a round with the first 2-B character left at the last position
C32_LastPositionWitness ==
  /\ OddRoundBuilt
  /\ oddGameState.oddId = "b1"
  /\ OddPosition = 4

(***************************************************************************)
(* C33: completeness of classic round construction                         *)
(***************************************************************************)

\* the last call ran startNewRound to its end
RoundConstructionEnded ==
  /\ ret.op \in { "startNewRound", "restartGame" }
  /\ ~ret.threw

\* does the tier group hold a character whose key is not in usedCharacterKeys?
HasUnused(tier) ==
  \E c \in Range(buildFilteredGroups.get[tier]) :
    getCharacterKey(c) \notin gameState.usedCharacterKeys

\* the candidate tier pairs with an unused character in both of their groups
UsablePairs ==
  { p \in CandidatePairs(PopulatedTiers) : HasUnused(p[1]) /\ HasUnused(p[2]) }

C33_ErrorWitness ==
  /\ RoundConstructionEnded
  /\ UsablePairs # {}
  /\ gameState.phase = "error"

(***************************************************************************)
(* C34: the two sides of a classic pair                                    *)
(***************************************************************************)

\* C34: the two characters of every committed classic pair have different
\* identity keys (name::origin), also when the pool holds several records of the
\* same character in different tiers.
C34_PairOfTwoCharacters ==
  (gameState.phase = "inRound" /\ gameState.currentPair # NullPair) =>
    getCharacterKey(gameState.currentPair.left)
      # getCharacterKey(gameState.currentPair.right)

\* C34: the pool lists a character in two tiers and a round has been built
C34_DuplicateRecordsWitness ==
  /\ ClassicRoundBuilt
  /\ \E i, j \in 1..Len(characters) :
       /\ i # j
       /\ getCharacterKey(characters[i]) = getCharacterKey(characters[j])
       /\ characters[i].highestTier # characters[j].highestTier

(***************************************************************************)
(* C35: the characters on display are unused                               *)
(***************************************************************************)

\* C35: while an engine is inRound with a committed round (currentPair non-null,
\* options of length 4), no character on display has its identity key in that
\* engine's usedCharacterKeys.
C35_DisplayedAreUnused ==
  /\ (gameState.phase = "inRound" /\ gameState.currentPair # NullPair) =>
       /\ getCharacterKey(gameState.currentPair.left) \notin gameState.usedCharacterKeys
       /\ getCharacterKey(gameState.currentPair.right) \notin gameState.usedCharacterKeys
  /\ (oddGameState.phase = "inRound" /\ Len(oddGameState.options) = 4) =>
       \A c \in Range(oddGameState.options) :
         getCharacterKey(c) \notin oddGameState.usedCharacterKeys

\* C35 witness: a classic round built after an answered one, without restart
C35_Witness ==
  /\ ret.op = "startNewRound"
  /\ gameState.phase = "inRound"
  /\ gameState.currentPair # NullPair
  /\ gameState.usedCharacterKeys # {}

\* C35 witness: an odd-one-out round built after an answered one, without restart
C35_OddWitness ==
  /\ ret.op = "startNewOddRound"
  /\ oddGameState.phase = "inRound"
  /\ Len(oddGameState.options) = 4
  /\ oddGameState.usedCharacterKeys # {}

(***************************************************************************)
(* C36: a round is resolved at most once                                   *)
(***************************************************************************)

\* the classic round on display has been resolved and no round started since
ClassicRoundOver ==
  \/ ret.op = "handleChoice" /\ ret.valid
  \/ gameState.phase \in { "afterCorrect", "afterWrong" }

\* the odd-one-out round on display has been resolved and no round started since
OddRoundOver ==
  \/ ret.op = "handleOddChoice" /\ ret.valid
  \/ oddGameState.phase \in { "afterCorrect", "afterWrong" }

\* a further choice on a resolved round is rejected and changes nothing
FurtherChoiceRejected ==
  /\ (ClassicRoundOver /\ ret'.op = "handleChoice") =>
       /\ ~ret'.valid
       /\ gameState' = gameState
       /\ stats' = stats
  /\ (OddRoundOver /\ ret'.op = "handleOddChoice") =>
       /\ ~ret'.valid
       /\ oddGameState' = oddGameState
       /\ stats' = stats

\* C36: after handleChoice / handleOddChoice has returned valid:true, every
\* further choice made before a new round is started returns valid:false and
\* changes neither the streak, usedCharacterKeys nor the lifetime stats.
C36_ResolvedOnce == [][FurtherChoiceRejected]_vars

\* C36 witness: a choice was rejected on a resolved odd-one-out round
C36_Witness ==
  /\ ret.op = "handleOddChoice" /\ ~ret.valid
  /\ oddGameState.phase \in { "afterCorrect", "afterWrong" }
  /\ stats.totalRounds = 1

\* C36 witness: a choice was rejected on a resolved classic round
C36_ClassicWitness ==
  /\ ret.op = "handleChoice" /\ ~ret.valid
  /\ gameState.phase \in { "afterCorrect", "afterWrong" }
  /\ stats.totalRounds = 1

(***************************************************************************)
(* C37, C38: the lifetime stats and the streaks                            *)
(***************************************************************************)

\* C37: starting from zeroed lifetime stats, every reachable state has
\* bestStreak <= totalCorrectRounds <= totalRounds, whatever the interleaving of
\* classic and odd-one-out rounds, restarts and resets.
C37_StatsOrdered ==
  hist.zeroStart =>
    /\ stats.bestStreak <= stats.totalCorrectRounds
    /\ stats.totalCorrectRounds <= stats.totalRounds

\* C37 witness: from zero, a correct round of one engine and a wrong round of the
\* other have been recorded
C37_Witness ==
  /\ hist.zeroStart
  /\ hist.vsRounds # <<>>
  /\ hist.oddRounds # <<>>
  /\ stats = [totalRounds |-> 2, totalCorrectRounds |-> 1, bestStreak |-> 1]

\* C37 witness: from zero, two correct rounds in a row
C37_StreakWitness ==
  /\ hist.zeroStart
  /\ stats = [totalRounds |-> 2, totalCorrectRounds |-> 2, bestStreak |-> 2]

\* C38: in every reachable state the current streak of the classic engine and
\* the current streak of the odd-one-out engine are both at most the lifetime
\* bestStreak.
C38_StreaksBelowBest ==
  /\ gameState.streak <= stats.bestStreak
  /\ oddGameState.streak <= stats.bestStreak

\* C38 witness: a classic streak of two has just become the best streak
C38_Witness ==
  /\ ret.op = "handleChoice" /\ ret.valid /\ ret.correct
  /\ gameState.streak = 2
  /\ stats.bestStreak = 2

\* C38 witness: an odd-one-out streak of one while the best streak, loaded from
\* the storage, is one
C38_OddWitness ==
  /\ ret.op = "handleOddChoice" /\ ret.valid /\ ret.correct
  /\ ~hist.zeroStart
  /\ oddGameState.streak = 1
  /\ gameState.streak = 0
  /\ stats.bestStreak = 1

(***************************************************************************)
(* C39: switching mode                                                     *)
(***************************************************************************)

\* what a step of showVsMode or showOddMode changes
ModeSwitchFrame ==
  /\ ret'.op = "showVsMode" =>
       /\ hist'.mode = "vs"
       /\ gameState'.streak = 0
       /\ gameState'.usedCharacterKeys = {}
       /\ gameState'.phase \in { "inRound", "error" }
       /\ gameState'.phase = "inRound" <=> CandidatePairs(PopulatedTiers) # {}
       /\ gameState'.phase = "inRound" =>
            /\ gameState'.currentPair # NullPair
            /\ gameState'.currentPair.left \in Range(ModeFilteredPool)
            /\ gameState'.currentPair.right \in Range(ModeFilteredPool)
       /\ UNCHANGED <<oddGameState, stats, storage, settings, characters>>
  /\ ret'.op = "showOddMode" =>
       /\ hist'.mode = "odd"
       /\ oddGameState'.streak = 0
       /\ oddGameState'.usedCharacterKeys = {}
       /\ oddGameState'.phase \in { "inRound", "error" }
       /\ oddGameState'.phase = "inRound" =>
            /\ Len(oddGameState'.options) = 4
            /\ Range(oddGameState'.options) \subseteq Range(characters)
       /\ UNCHANGED <<gameState, stats, storage, settings, characters>>

\* C39: switching mode starts a new run in the mode being entered and nothing
\* else: showVsMode leaves the classic engine with streak 0, no used key and a
\* classic round (phase error when the settings leave no candidate tier pair),
\* showOddMode does the same for the odd-one-out engine; the run state of the
\* mode being left, the settings and the lifetime stats are unchanged.
C39_ModeSwitchFrame == [][ModeSwitchFrame]_vars

\* C39 witness: the odd-one-out section was shown, with a new round, while the
\* classic run that was left keeps its streak and its used characters
C39_Witness ==
  /\ ret.op = "showOddMode"
  /\ oddGameState.phase = "inRound"
  /\ Len(oddGameState.options) = 4
  /\ gameState.streak = 1
  /\ gameState.usedCharacterKeys # {}
  /\ stats.totalRounds = 1

\* C39 witness: the classic section was shown, with a new pair, while the
\* odd-one-out run that was left keeps its streak and its used characters
C39_ClassicWitness ==
  /\ ret.op = "showVsMode"
  /\ gameState.phase = "inRound"
  /\ gameState.currentPair # NullPair
  /\ oddGameState.streak = 1
  /\ oddGameState.usedCharacterKeys # {}

====
